---- MODULE Spec2Model ----
(***************************************************************************)
(* Token lifecycle engine of auth-user-management: login with account      *)
(* lockout, refresh-token rotation with reuse detection, logout and        *)
(* revocation, the Redis blacklist with its grace marker, and the          *)
(* authenticate middleware.                                                *)
(*                                                                         *)
(* Time is counted in whole seconds (the unit of a JWT's exp claim and of  *)
(* a Redis TTL); the code's Date values are milliseconds.                  *)
(***************************************************************************)
EXTENDS Integers, FiniteSets, Sequences, TLC

VARIABLES
    now,        \* the wall clock, seconds
    users,      \* table "users": id -> row
    sessions,   \* table "refresh_tokens": a set of rows
    redis,      \* the Redis keyspace: key -> absolute expiry time
    redisUp,    \* whether Redis answers
    auditUp,    \* whether inserts into table "audit_logs" succeed
    cleanup,    \* the clean-up job: its flag isRunning and the locals of each
                \* call of deleteExpiredTokens
    nextId,     \* source of fresh identifiers (randomUUID, row ids)
    issued,     \* the token pairs handed to clients so far, each with the refresh
                \* token it was exchanged for (none for a login)
    procs,      \* requests in flight: process -> its position and locals
    streak,     \* per user: consecutive wrong-password logins, each within the window
    streakAt,   \* per user: time of the last login counted in streak
    burned,     \* refresh tokens that had been issued to a user when reuse was
                \* detected, the password changed or the account deleted
    last        \* the request handled last: what it returned and the rows it
                \* appended to table "audit_logs" (the table is never read back)

vars == <<now, users, sessions, redis, redisUp, auditUp, cleanup, nextId,
          issued, procs, streak, streakAt, burned, last>>

-----------------------------------------------------------------------------
(* Bounds of the model *)

MaxTokens == 3

\* REFRESH_TOKEN_CLEANUP_BATCH_SIZE as set in the environment (the default is
\* 500).
cleanupBatchSize == 2

-----------------------------------------------------------------------------
(* Program constants *)

maxAttempts == 5
lockoutDurationMinutes == 15
resetWindowMinutes == 30
GRACE_PERIOD_SECONDS == 10
ACCESS_TOKEN_EXPIRY == 900
REFRESH_TOKEN_EXPIRY == 604800

\* A nullable column holding no value (lockoutUntil, lastFailedLogin).
NULL == -1

Users == {"u1", "u2"}
Procs == {"p1", "p2"}
\* Login requests in flight, and calls of the clean-up job.
Logins == {"l1", "l2", "l3", "l4", "l5"}
Runs == {"r1", "r2"}
NoUser == "none"

\* The e-mail address registered for a user; "nobody@x" has no account.
EmailOf(u) == IF u = "u1" THEN "u1@x" ELSE "u2@x"
Passwords == {"pw1", "pw2"}
InitialPassword == "pw1"

-----------------------------------------------------------------------------
(* Pure helpers *)

\* createHash("sha256").update(x).digest("hex"): one-way, collision-free here.
hashToken(x) == <<"sha256", x>>

\* bcrypt.hashSync / bcrypt.compareSync
bcryptHash(pw) == <<"bcrypt", pw>>
bcryptCompare(pw, hashed) == hashed = bcryptHash(pw)

\* fingerprintService.generate
generateFingerprint(meta) == hashToken(<<meta.userAgent, meta.ipAddress>>)

\* `x || null` on an optional string
OrNull(s) == IF s = "" THEN "null" ELSE s

\* jwt.sign with expiresIn and a fresh jwtid
generateAccessToken(u, id, t) ==
    [kind |-> "access", userId |-> u, exp |-> t + ACCESS_TOKEN_EXPIRY,
     jti |-> id, sig |-> "ACCESS_TOKEN_SECRET"]

generateRefreshTokenNoJwtid(u, id, t) ==
    [kind |-> "refresh", userId |-> u, exp |-> t + REFRESH_TOKEN_EXPIRY,
     jti |-> 0, sig |-> "REFRESH_TOKEN_SECRET"]

generateRefreshToken(u, id, t) ==
    [kind |-> "refresh", userId |-> u, exp |-> t + REFRESH_TOKEN_EXPIRY,
     jti |-> id, sig |-> "REFRESH_TOKEN_SECRET"]

generateTokens(u, id, t) ==
    [access |-> generateAccessToken(u, id, t),
     refresh |-> generateRefreshToken(u, id, t)]

getRefreshTokenExpiryOneDay(t) == t + 24 * 60 * 60

getRefreshTokenExpiry(t) == t + 7 * 24 * 60 * 60

\* A token whose signature does not verify under either secret.
Forge(tok) == [tok EXCEPT !.sig = "forged"]

\* jwt.verify: the signature is checked first, then exp (expired when now >= exp;
\* a token without exp claim never expires).
jwtVerify(tok, secret, t) ==
    IF tok.sig # secret THEN "JsonWebTokenError"
    ELSE IF tok.exp # NULL /\ t >= tok.exp THEN "TokenExpiredError"
    ELSE "ok"

verifyRefreshTokenFlipped(tok, t) ==
    LET r == jwtVerify(tok, "REFRESH_TOKEN_SECRET", t) IN
    IF r = "TokenExpiredError" THEN "REFRESH_TOKEN_INVALID"
    ELSE IF r = "JsonWebTokenError" THEN "REFRESH_TOKEN_EXPIRED"
    ELSE "ok"

verifyRefreshToken(tok, t) ==
    LET r == jwtVerify(tok, "REFRESH_TOKEN_SECRET", t) IN
    IF r = "TokenExpiredError" THEN "REFRESH_TOKEN_EXPIRED"
    ELSE IF r = "JsonWebTokenError" THEN "REFRESH_TOKEN_INVALID"
    ELSE "ok"

verifyAccessToken(tok, t) ==
    LET r == jwtVerify(tok, "ACCESS_TOKEN_SECRET", t) IN
    IF r = "TokenExpiredError" THEN "TOKEN_EXPIRED"
    ELSE IF r = "JsonWebTokenError" THEN "TOKEN_INVALID"
    ELSE "ok"

-----------------------------------------------------------------------------
(* Redis and the token blacklist service *)

refreshKey(tok) == <<"blacklist:refresh:", hashToken(tok)>>
accessKey(tok) == <<"blacklist:access:", hashToken(tok)>>
graceKey(tok) == <<"grace:refresh:", hashToken(tok)>>

\* SET key "1" EX ttl
RedisSet(R, key, ttl, t) ==
    [k \in DOMAIN R \cup {key} |-> IF k = key THEN t + ttl ELSE R[k]]

\* EXISTS key
RedisExists(R, key, t) == key \in DOMAIN R /\ R[key] > t

\* Keys past their TTL are gone.
RedisExpire(R, t) == [k \in {x \in DOMAIN R : R[x] > t} |-> R[k]]

getTtlFromTokenFullLifetime(tok, t) == REFRESH_TOKEN_EXPIRY

\* jwt.decode(token).exp minus the clock, 0 without exp or once it is past
getTtlFromToken(tok, t) ==
    LET ttlSeconds == tok.exp - t IN
    IF tok.exp = NULL THEN 0
    ELSE IF ttlSeconds > 0 THEN ttlSeconds ELSE 0

addRefreshTokenNever(R, up, tok, t) == R

addRefreshToken(R, up, tok, t) ==
    LET ttlSeconds == getTtlFromToken(tok, t) IN
    IF ttlSeconds <= 0 \/ ~up THEN R
    ELSE RedisSet(R, refreshKey(tok), ttlSeconds, t)

\* The grace marker is written after the blacklist entry.
addGraceMarker(R, up, tok, t) ==
    LET ttlSeconds == getTtlFromToken(tok, t) IN
    IF ttlSeconds <= 0 \/ ~up THEN R
    ELSE RedisSet(R, graceKey(tok), GRACE_PERIOD_SECONDS, t)

addRefreshTokenWithGrace(R, up, tok, t) ==
    addGraceMarker(addRefreshToken(R, up, tok, t), up, tok, t)

isRefreshTokenBlacklistedIgnoresGrace(R, up, tok, t) ==
    IF ~up THEN FALSE ELSE RedisExists(R, refreshKey(tok), t)

isRefreshTokenBlacklisted(R, up, tok, t) ==
    IF ~up THEN FALSE
    ELSE IF RedisExists(R, graceKey(tok), t) THEN FALSE
    ELSE RedisExists(R, refreshKey(tok), t)

isAccessTokenBlacklisted(R, up, tok, t) ==
    IF ~up THEN FALSE ELSE RedisExists(R, accessKey(tok), t)

\* addAccessToken: the entry lives until the token's exp.
addAccessToken(R, up, tok, t) ==
    LET ttlSeconds == getTtlFromToken(tok, t) IN
    IF ttlSeconds <= 0 \/ ~up THEN R
    ELSE RedisSet(R, accessKey(tok), ttlSeconds, t)

\* Promise.all(tokens.map(add)): the SETs touch distinct keys, so their order
\* does not matter.
RECURSIVE addRefreshTokens(_, _, _, _)
addRefreshTokens(R, up, toks, t) ==
    IF toks = {} THEN R
    ELSE LET tok == CHOOSE x \in toks : TRUE IN
         addRefreshTokens(addRefreshToken(R, up, tok, t), up, toks \ {tok}, t)

-----------------------------------------------------------------------------
(* The session store (prisma.refreshToken) *)

createSessionForgets(S, id, u, tok, meta3, t) == S

\* prisma.refreshToken.create: the raw token string is the unique key.
createSession(S, id, u, tok, meta3, t) ==
    S \cup {[id |-> id, userId |-> u, token |-> tok,
             expiresAt |-> getRefreshTokenExpiry(t), isRevoked |-> FALSE,
             ipAddress |-> meta3.ipAddress, userAgent |-> meta3.userAgent,
             fingerprint |-> meta3.fingerprint, createdAt |-> t]}

\* findUnique({ where: { token } })
findByToken(S, tok) == {r \in S : r.token = tok}

markRevokedForgets(S, tok) == S

\* update({ where: { token }, data: { isRevoked: true } })
markRevoked(S, tok) ==
    {IF r.token = tok THEN [r EXCEPT !.isRevoked = TRUE] ELSE r : r \in S}

\* update({ where: { id }, data: { isRevoked: true } })
markRevokedById(S, id) ==
    {IF r.id = id THEN [r EXCEPT !.isRevoked = TRUE] ELSE r : r \in S}

\* findMany({ where: { userId, isRevoked: false }, select: { token } })
activeTokensOf(S, u) == {r.token : r \in {x \in S : x.userId = u /\ ~x.isRevoked}}

markAllRevokedNobody(S, u) == S

markAllRevokedEveryone(S, u) == {[r EXCEPT !.isRevoked = TRUE] : r \in S}

\* updateMany({ where: { userId, isRevoked: false }, data: { isRevoked: true } })
markAllRevoked(S, u) ==
    {IF r.userId = u /\ ~r.isRevoked THEN [r EXCEPT !.isRevoked = TRUE] ELSE r
        : r \in S}

\* updateMany({ where: { userId }, data: { isRevoked: true } })
markAllRevokedOfUser(S, u) ==
    {IF r.userId = u THEN [r EXCEPT !.isRevoked = TRUE] ELSE r : r \in S}

-----------------------------------------------------------------------------
(* The lockout guard *)

isLockedNever(user, t) == FALSE

\* user.lockoutUntil && user.lockoutUntil > new Date()
isLocked(user, t) == user.lockoutUntil # NULL /\ user.lockoutUntil > t

handleFailedLoginLocksEarly(user, t) ==
    LET failedAttempts == user.failedLoginAttempts + 1 IN
    [user EXCEPT !.failedLoginAttempts = failedAttempts,
                 !.lastFailedLogin = t,
                 !.lockoutUntil = IF failedAttempts >= maxAttempts - 1
                                  THEN t + lockoutDurationMinutes * 60 ELSE @]

handleFailedLoginKeepsCount(user, t) ==
    LET failedAttempts == IF user.failedLoginAttempts >= maxAttempts - 1
                          THEN maxAttempts - 1
                          ELSE user.failedLoginAttempts + 1 IN
    [user EXCEPT !.failedLoginAttempts = failedAttempts, !.lastFailedLogin = t]

handleFailedLoginWindowInclusive(user, t) ==
    LET kept == IF user.lastFailedLogin # NULL
                   /\ t - user.lastFailedLogin >= resetWindowMinutes * 60
                THEN 0 ELSE user.failedLoginAttempts
        failedAttempts == kept + 1
    IN  [user EXCEPT !.failedLoginAttempts = failedAttempts,
                     !.lastFailedLogin = t,
                     !.lockoutUntil = IF failedAttempts >= maxAttempts
                                      THEN t + lockoutDurationMinutes * 60 ELSE @]

\* The user row handleFailedLogin writes.
handleFailedLogin(user, t) ==
    LET kept == IF user.lastFailedLogin # NULL
                   /\ t - user.lastFailedLogin > resetWindowMinutes * 60
                THEN 0 ELSE user.failedLoginAttempts
        failedAttempts == kept + 1
    IN  [user EXCEPT !.failedLoginAttempts = failedAttempts,
                     !.lastFailedLogin = t,
                     !.lockoutUntil = IF failedAttempts >= maxAttempts
                                      THEN t + lockoutDurationMinutes * 60 ELSE @]

\* The audit events handleFailedLogin records.
failedLoginAudit(user, t) ==
    (IF handleFailedLogin(user, t).failedLoginAttempts >= maxAttempts
     THEN {"ACCOUNT_LOCKED"} ELSE {}) \cup {"LOGIN_FAILED"}

resetFailedLoginKeepsCount(user) ==
    IF user.failedLoginAttempts > 0
    THEN [user EXCEPT !.lockoutUntil = NULL, !.lastFailedLogin = NULL]
    ELSE user

\* Reset failed login attempts on successful login
resetFailedLogin(user) ==
    IF user.failedLoginAttempts > 0
    THEN [user EXCEPT !.failedLoginAttempts = 0, !.lockoutUntil = NULL,
                      !.lastFailedLogin = NULL]
    ELSE user

\* The streak of wrong-password logins a failure at time t extends or starts.
streakAfterFailure(n, at, t) ==
    IF n > 0 /\ t - at <= resetWindowMinutes * 60 THEN n + 1 ELSE 1

\* A pair as the client keeps it: `parent` holds the refresh token that was
\* rotated to obtain it, and is empty for a login.
Handed(pair, parent) ==
    [access |-> pair.access, refresh |-> pair.refresh, parent |-> parent]

-----------------------------------------------------------------------------
(* Initial state: two registered, active users, no session, an empty cache *)

NoOp == [op |-> "init", arg |-> <<>>, result |-> "OK", out |-> {}, audit |-> {},
         error |-> {}]

\* A request not yet started: no token presented, nothing read so far.
\* `moved` notes the rows an updateMany of the call has turned to revoked.
Idle == [pc |-> "idle", call |-> "", user |-> NoUser, tok |-> {}, stored |-> {},
         pair |-> {}, active |-> {}, moved |-> {},
         meta |-> [ipAddress |-> "", userAgent |-> ""], result |-> ""]

\* A call of deleteExpiredTokens not yet made: `now` is its cut-off, `expired`
\* the ids findMany returned last.
IdleRun == [pc |-> "idle", now |-> 0, expired |-> {}, totalDeleted |-> 0]

Init ==
    /\ now = 0
    /\ users = [u \in Users |->
                  [email |-> EmailOf(u), password |-> bcryptHash(InitialPassword),
                   isActive |-> TRUE, failedLoginAttempts |-> 0,
                   lastFailedLogin |-> NULL, lockoutUntil |-> NULL]]
    /\ sessions = {}
    /\ redis = <<>>
    /\ redisUp = TRUE
    /\ auditUp = TRUE
    /\ cleanup = [isRunning |-> FALSE, run |-> [r \in Runs |-> IdleRun]]
    /\ nextId = 1
    /\ issued = {}
    /\ procs = [p \in Procs \cup Logins |-> Idle]
    /\ streak = [u \in Users |-> 0]
    /\ streakAt = [u \in Users |-> 0]
    /\ burned = {}
    /\ last = NoOp

AuditedNothing(events, u) == {}

\* auditService.log: one row per event; a failing insert is caught and logged
\* to the console, and the caller goes on.
Audited(events, u) ==
    IF auditUp THEN {[action |-> a, userId |-> u] : a \in events} ELSE {}

Record(op, arg, result, out, rows) ==
    [op |-> op, arg |-> arg, result |-> result, out |-> out, audit |-> rows,
     error |-> {}]

\* AppError and its subclasses, as the error handler sends them: status,
\* message and code.
UnauthorizedError(message, code) ==
    [statusCode |-> 401, message |-> message, code |-> code]

ForbiddenError(message, code) ==
    [statusCode |-> 403, message |-> message, code |-> code]

\* The record of a request that threw err.
Thrown(op, arg, err, rows) ==
    [Record(op, arg, err.code, {}, rows) EXCEPT !.error = {err}]

-----------------------------------------------------------------------------
(* AuthService.login, run to completion *)

LoginUnknownTellsApart(email, password) ==
    /\ last' = Thrown("login", <<email, password>>,
                      UnauthorizedError("User not found.", "INVALID_CREDENTIALS"),
                      Audited({"LOGIN_FAILED"}, NoUser))
    /\ UNCHANGED <<users, sessions, nextId, issued, streak, streakAt>>

LoginUnknown(email, password) ==
    /\ last' = Thrown("login", <<email, password>>,
                      UnauthorizedError("Invalid email or password.",
                                        "INVALID_CREDENTIALS"),
                      Audited({"LOGIN_FAILED"}, NoUser))
    /\ UNCHANGED <<users, sessions, nextId, issued, streak, streakAt>>

\* Math.ceil((lockoutUntil - now) / 60000), the times being in seconds here.
remainingMinutes(user, t) == (user.lockoutUntil - t + 59) \div 60

LoginLocked(u, email, password) ==
    /\ last' = Thrown("login", <<email, password>>,
                      ForbiddenError(<<"Account is locked. Try again in",
                                       remainingMinutes(users[u], now), "minutes.">>,
                                     "ACCOUNT_LOCKED"),
                      Audited({"LOGIN_FAILED"}, u))
    /\ UNCHANGED <<users, sessions, nextId, issued, streak, streakAt>>

LoginWrongPassword(u, email, password) ==
    /\ users' = [users EXCEPT ![u] = handleFailedLogin(@, now)]
    /\ streak' = [streak EXCEPT ![u] = streakAfterFailure(@, streakAt[u], now)]
    /\ streakAt' = [streakAt EXCEPT ![u] = now]
    /\ last' = Thrown("login", <<email, password>>,
                      UnauthorizedError("Invalid email or password.",
                                        "INVALID_CREDENTIALS"),
                      Audited(failedLoginAudit(users[u], now), u))
    /\ UNCHANGED <<sessions, nextId, issued>>

LoginInactive(u, email, password) ==
    /\ last' = Thrown("login", <<email, password>>,
                      UnauthorizedError("User account is inactive.",
                                        "ACCOUNT_INACTIVE"),
                      Audited({"LOGIN_FAILED"}, u))
    /\ UNCHANGED <<users, sessions, nextId, issued, streak, streakAt>>

LoginSuccessNeedsAudit(u, email, password, meta) ==
    LET pair == generateTokens(u, nextId, now)
        meta3 == [ipAddress |-> OrNull(meta.ipAddress),
                  userAgent |-> OrNull(meta.userAgent),
                  fingerprint |-> generateFingerprint(meta)]
    IN  /\ nextId <= MaxTokens
        /\ users' = [users EXCEPT ![u] = resetFailedLogin(@)]
        /\ sessions' = createSession(sessions, nextId, u, pair.refresh, meta3, now)
        /\ nextId' = nextId + 1
        /\ streak' = [streak EXCEPT ![u] = 0]
        /\ UNCHANGED streakAt
        /\ IF auditUp
           THEN /\ issued' = issued \cup {Handed(pair, {})}
                /\ last' = Record("login", <<email, password>>, "OK", {pair},
                                  Audited({"LOGIN_SUCCESS"}, u))
           ELSE /\ issued' = issued
                /\ last' = Record("login", <<email, password>>,
                                  "INTERNAL_SERVER_ERROR", {}, {})

LoginSuccess(u, email, password, meta) ==
    LET pair == generateTokens(u, nextId, now)
        meta3 == [ipAddress |-> OrNull(meta.ipAddress),
                  userAgent |-> OrNull(meta.userAgent),
                  fingerprint |-> generateFingerprint(meta)]
    IN  /\ nextId <= MaxTokens
        /\ users' = [users EXCEPT ![u] = resetFailedLogin(@)]
        /\ sessions' = createSession(sessions, nextId, u, pair.refresh, meta3, now)
        /\ nextId' = nextId + 1
        /\ issued' = issued \cup {Handed(pair, {})}
        /\ streak' = [streak EXCEPT ![u] = 0]
        /\ UNCHANGED streakAt
        /\ last' = Record("login", <<email, password>>, "OK", {pair},
                          Audited({"LOGIN_SUCCESS"}, u))

Login(email, password, meta) ==
    LET found == {u \in DOMAIN users : users[u].email = email} IN
    /\ IF found = {} THEN LoginUnknown(email, password)
       ELSE LET u == CHOOSE x \in found : TRUE IN
            IF isLocked(users[u], now) THEN LoginLocked(u, email, password)
            ELSE IF ~bcryptCompare(password, users[u].password)
                 THEN LoginWrongPassword(u, email, password)
            ELSE IF ~users[u].isActive THEN LoginInactive(u, email, password)
            ELSE LoginSuccess(u, email, password, meta)
    /\ UNCHANGED <<now, redis, redisUp, auditUp, cleanup, procs, burned>>

-----------------------------------------------------------------------------
(* AuthService.revokeAllUserTokens *)

\* The rows and the cache after revokeAllUserTokens(u): the active tokens are
\* read, the rows are updated, then every token read is blacklisted.
revokeAllSessions(S, u) == markAllRevoked(S, u)

revokeAllCache(S, R, up, u, t) == addRefreshTokens(R, up, activeTokensOf(S, u), t)

RevokeAllUserTokens(u, meta) ==
    LET events == IF meta.ipAddress # "" \/ meta.userAgent # ""
                  THEN {"ALL_SESSIONS_REVOKED"} ELSE {} IN
    /\ sessions' = revokeAllSessions(sessions, u)
    /\ redis' = revokeAllCache(sessions, redis, redisUp, u, now)
    /\ last' = Record("revokeAll", <<u>>, "OK", {}, Audited(events, u))
    /\ UNCHANGED <<now, users, redisUp, auditUp, cleanup, nextId, issued, procs, streak,
                   streakAt, burned>>

-----------------------------------------------------------------------------
(* AuthService.refreshTokens, run to completion *)

RefreshRejected(tok, code) ==
    /\ last' = Record("refresh", <<tok>>, code, {}, {})
    /\ UNCHANGED <<sessions, redis, nextId, issued, burned>>

RefreshReuseOnlyThrows(tok, marked) ==
    /\ redis' = marked
    /\ last' = Record("refresh", <<tok>>, "TOKEN_REUSE_DETECTED", {},
                      Audited({"TOKEN_REUSE_DETECTED"}, tok.userId))
    /\ UNCHANGED <<sessions, nextId, issued, burned>>

\* Both reuse branches: `marked` is the cache after the branch's own write.
RefreshReuse(tok, marked) ==
    LET u == tok.userId IN
    /\ sessions' = revokeAllSessions(sessions, u)
    /\ redis' = revokeAllCache(sessions, marked, redisUp, u, now)
    /\ burned' = burned \cup {p.refresh : p \in {q \in issued : q.refresh.userId = u}}
    /\ last' = Record("refresh", <<tok>>, "TOKEN_REUSE_DETECTED", {},
                      Audited({"TOKEN_REUSE_DETECTED"}, u))
    /\ UNCHANGED <<nextId, issued>>

RefreshRotateDropsMetadata(tok, storedToken) ==
    LET u == tok.userId
        pair == generateTokens(u, nextId, now)
        meta3 == [ipAddress |-> "null", userAgent |-> "null",
                  fingerprint |-> generateFingerprint([ipAddress |-> "",
                                                       userAgent |-> ""])]
    IN  /\ nextId <= MaxTokens
        /\ sessions' = createSession(markRevoked(sessions, tok), nextId, u,
                                     pair.refresh, meta3, now)
        /\ redis' = addRefreshTokenWithGrace(redis, redisUp, tok, now)
        /\ nextId' = nextId + 1
        /\ issued' = issued \cup {Handed(pair, {tok})}
        /\ last' = Record("refresh", <<tok>>, "OK", {pair},
                          Audited({"TOKEN_REFRESH"}, u))
        /\ UNCHANGED burned

RefreshRotate(tok, storedToken) ==
    LET u == tok.userId
        pair == generateTokens(u, nextId, now)
        meta3 == [ipAddress |-> storedToken.ipAddress,
                  userAgent |-> storedToken.userAgent,
                  fingerprint |-> storedToken.fingerprint]
    IN  /\ nextId <= MaxTokens
        /\ sessions' = createSession(markRevoked(sessions, tok), nextId, u,
                                     pair.refresh, meta3, now)
        /\ redis' = addRefreshTokenWithGrace(redis, redisUp, tok, now)
        /\ nextId' = nextId + 1
        /\ issued' = issued \cup {Handed(pair, {tok})}
        /\ last' = Record("refresh", <<tok>>, "OK", {pair},
                          Audited({"TOKEN_REFRESH"}, u))
        /\ UNCHANGED burned

isReuseOnlyWhenMissing(found) == found = {}

\* !storedToken || storedToken.isRevoked
isReuse(found) == found = {} \/ (\E r \in found : r.isRevoked)

RefreshTokens(tok) ==
    LET verdict == verifyRefreshToken(tok, now)
        found == findByToken(sessions, tok)
    IN
    /\ IF verdict # "ok" THEN RefreshRejected(tok, verdict)
       ELSE IF isRefreshTokenBlacklisted(redis, redisUp, tok, now)
            THEN RefreshReuse(tok, redis)
       ELSE IF isReuse(found)
            THEN RefreshReuse(tok, addRefreshToken(redis, redisUp, tok, now))
       ELSE RefreshRotate(tok, CHOOSE r \in found : TRUE)
    /\ UNCHANGED <<now, users, redisUp, auditUp, cleanup, procs, streak, streakAt>>

-----------------------------------------------------------------------------
(* AuthService.refreshTokens, one store or cache call at a time: process p   *)
(* runs one call; between two awaits another request may run.               *)

TokenOf(p) == CHOOSE tok \in procs[p].tok : TRUE

At(p, pc) == procs[p].pc = pc

Goto(p, pc) == procs' = [procs EXCEPT ![p].pc = pc]

Finish(p, result) ==
    procs' = [procs EXCEPT ![p].pc = "done", ![p].result = result]

\* verifyRefreshToken is synchronous: the call starts and verifies in one step.
RefreshStart(p, tok) ==
    LET verdict == verifyRefreshToken(tok, now) IN
    /\ At(p, "idle")
    /\ IF verdict # "ok"
       THEN /\ procs' = [procs EXCEPT ![p] = [Idle EXCEPT !.pc = "done",
                                                          !.call = "refresh",
                                                          !.tok = {tok},
                                                          !.result = verdict]]
            /\ last' = Record("refresh", <<tok>>, verdict, {}, {})
       ELSE /\ procs' = [procs EXCEPT ![p] = [Idle EXCEPT !.pc = "isBlacklisted",
                                                          !.call = "refresh",
                                                          !.user = tok.userId,
                                                          !.tok = {tok}]]
            /\ UNCHANGED last
    /\ UNCHANGED <<now, users, sessions, redis, redisUp, auditUp, cleanup, nextId, issued,
                   streak, streakAt, burned>>

\* await tokenBlacklistService.isBlacklisted(refreshToken)
RefreshIsBlacklisted(p) ==
    /\ At(p, "isBlacklisted")
    /\ IF isRefreshTokenBlacklisted(redis, redisUp, TokenOf(p), now)
       THEN Goto(p, "revokeFind")
       ELSE Goto(p, "findUnique")
    /\ UNCHANGED <<now, users, sessions, redis, redisUp, auditUp, cleanup, nextId, issued,
                   streak, streakAt, burned, last>>

\* await prisma.refreshToken.findUnique, then the synchronous generateTokens
RefreshFindUnique(p) ==
    LET tok == TokenOf(p)
        found == findByToken(sessions, tok)
    IN
    /\ At(p, "findUnique")
    /\ IF isReuse(found)
       THEN /\ Goto(p, "reuseAdd")
            /\ UNCHANGED nextId
       ELSE /\ nextId <= MaxTokens
            /\ procs' = [procs EXCEPT
                            ![p].pc = "update",
                            ![p].stored = found,
                            ![p].pair = {generateTokens(tok.userId, nextId, now)}]
            /\ nextId' = nextId + 1
    /\ UNCHANGED <<now, users, sessions, redis, redisUp, auditUp, cleanup, issued,
                   streak, streakAt, burned, last>>

\* await prisma.refreshToken.update: unconditional, whatever isRevoked is now
RefreshUpdate(p) ==
    /\ At(p, "update")
    /\ sessions' = markRevoked(sessions, TokenOf(p))
    /\ Goto(p, IF getTtlFromToken(TokenOf(p), now) <= 0 THEN "create"
                ELSE "setBlacklist")
    /\ UNCHANGED <<now, users, redis, redisUp, auditUp, cleanup, nextId, issued,
                   streak, streakAt, burned, last>>

\* addRefreshTokenWithGrace, first SET: the blacklist entry
RefreshSetBlacklist(p) ==
    /\ At(p, "setBlacklist")
    /\ redis' = addRefreshToken(redis, redisUp, TokenOf(p), now)
    /\ Goto(p, "setGrace")
    /\ UNCHANGED <<now, users, sessions, redisUp, auditUp, cleanup, nextId, issued,
                   streak, streakAt, burned, last>>

\* addRefreshTokenWithGrace, second SET: the grace marker
RefreshSetGrace(p) ==
    /\ At(p, "setGrace")
    /\ redis' = addGraceMarker(redis, redisUp, TokenOf(p), now)
    /\ Goto(p, "create")
    /\ UNCHANGED <<now, users, sessions, redisUp, auditUp, cleanup, nextId, issued,
                   streak, streakAt, burned, last>>

\* await prisma.refreshToken.create
RefreshCreate(p) ==
    LET tok == TokenOf(p)
        pair == CHOOSE x \in procs[p].pair : TRUE
        storedToken == CHOOSE r \in procs[p].stored : TRUE
        meta3 == [ipAddress |-> storedToken.ipAddress,
                  userAgent |-> storedToken.userAgent,
                  fingerprint |-> storedToken.fingerprint]
    IN
    /\ At(p, "create")
    /\ sessions' = createSession(sessions, pair.refresh.jti, tok.userId,
                                 pair.refresh, meta3, now)
    /\ Goto(p, "return")
    /\ UNCHANGED <<now, users, redis, redisUp, auditUp, cleanup, nextId, issued,
                   streak, streakAt, burned, last>>

\* await auditService.logTokenRefresh, then return the pair
RefreshReturn(p) ==
    LET tok == TokenOf(p)
        pair == CHOOSE x \in procs[p].pair : TRUE
    IN
    /\ At(p, "return")
    /\ Finish(p, "OK")
    /\ issued' = issued \cup {Handed(pair, {tok})}
    /\ last' = Record("refresh", <<tok>>, "OK", {pair},
                      Audited({"TOKEN_REFRESH"}, tok.userId))
    /\ UNCHANGED <<now, users, sessions, redis, redisUp, auditUp, cleanup, nextId,
                   streak, streakAt, burned>>

\* await tokenBlacklistService.add(refreshToken), revoked/unknown branch
RefreshReuseAdd(p) ==
    /\ At(p, "reuseAdd")
    /\ redis' = addRefreshToken(redis, redisUp, TokenOf(p), now)
    /\ Goto(p, "revokeFind")
    /\ UNCHANGED <<now, users, sessions, redisUp, auditUp, cleanup, nextId, issued,
                   streak, streakAt, burned, last>>

\* A revokeAllUserTokens(u, meta) call of its own (POST /revoke-all) starts.
RevokeAllStart(p, u, meta) ==
    /\ At(p, "idle")
    /\ procs' = [procs EXCEPT ![p] = [Idle EXCEPT !.pc = "revokeFind",
                                                  !.call = "revokeAll",
                                                  !.user = u,
                                                  !.meta = meta]]
    /\ UNCHANGED <<now, users, sessions, redis, redisUp, auditUp, cleanup, nextId, issued,
                   streak, streakAt, burned, last>>

\* revokeAllUserTokens: await prisma.refreshToken.findMany
RevokeFindMany(p) ==
    /\ At(p, "revokeFind")
    /\ procs' = [procs EXCEPT
                    ![p].pc = "revokeUpdate",
                    ![p].active = activeTokensOf(sessions, procs[p].user)]
    /\ UNCHANGED <<now, users, sessions, redis, redisUp, auditUp, cleanup, nextId, issued,
                   streak, streakAt, burned, last>>

\* revokeAllUserTokens: await prisma.refreshToken.updateMany
RevokeUpdateMany(p) ==
    /\ At(p, "revokeUpdate")
    /\ sessions' = markAllRevoked(sessions, procs[p].user)
    /\ procs' = [procs EXCEPT
                    ![p].pc = "revokeBlacklist",
                    ![p].moved = activeTokensOf(sessions, procs[p].user)]
    /\ UNCHANGED <<now, users, redis, redisUp, auditUp, cleanup, nextId, issued,
                   streak, streakAt, burned, last>>

\* revokeAllUserTokens: one of the SETs of Promise.all(activeTokens.map(add))
RevokeBlacklist(p) ==
    /\ At(p, "revokeBlacklist")
    /\ \E tok \in procs[p].active :
          /\ redis' = addRefreshToken(redis, redisUp, tok, now)
          /\ procs' = [procs EXCEPT ![p].active = @ \ {tok}]
    /\ UNCHANGED <<now, users, sessions, redisUp, auditUp, cleanup, nextId, issued,
                   streak, streakAt, burned, last>>

\* await auditService.logTokenReuseDetected, then throw TOKEN_REUSE_DETECTED
RefreshThrowReuse(p) ==
    LET tok == TokenOf(p) IN
    /\ At(p, "revokeBlacklist")
    /\ procs[p].call = "refresh"
    /\ procs[p].active = {}
    /\ Finish(p, "TOKEN_REUSE_DETECTED")
    /\ burned' = burned \cup
                     {h.refresh : h \in {q \in issued : q.refresh.userId = tok.userId}}
    /\ last' = Record("refresh", <<tok>>, "TOKEN_REUSE_DETECTED", {},
                      Audited({"TOKEN_REUSE_DETECTED"}, tok.userId))
    /\ UNCHANGED <<now, users, sessions, redis, redisUp, auditUp, cleanup, nextId, issued,
                   streak, streakAt>>

\* revokeAllUserTokens called on its own: the audit row, then the return
RevokeAllReturn(p) ==
    LET u == procs[p].user
        meta == procs[p].meta
        events == IF meta.ipAddress # "" \/ meta.userAgent # ""
                  THEN {"ALL_SESSIONS_REVOKED"} ELSE {}
    IN
    /\ At(p, "revokeBlacklist")
    /\ procs[p].call = "revokeAll"
    /\ procs[p].active = {}
    /\ Finish(p, "OK")
    /\ last' = Record("revokeAll", <<u>>, "OK", {}, Audited(events, u))
    /\ UNCHANGED <<now, users, sessions, redis, redisUp, auditUp, cleanup, nextId, issued,
                   streak, streakAt, burned>>

-----------------------------------------------------------------------------
(* AuthService.login with a wrong password, one store call at a time:       *)
(* process p reads the user row, and writes the counters after an await.    *)

\* The columns prisma.user.update writes from updateData: lockoutUntil is
\* written only when handleFailedLogin set it.
applyUpdateData(row, updateData) ==
    [row EXCEPT !.failedLoginAttempts = updateData.failedLoginAttempts,
                !.lastFailedLogin = updateData.lastFailedLogin,
                !.lockoutUntil = IF updateData.failedLoginAttempts >= maxAttempts
                                 THEN updateData.lockoutUntil ELSE @]

\* await prisma.user.findUnique, then the synchronous part: the lock test,
\* bcrypt.compareSync, and handleFailedLogin up to its first await, which
\* computes updateData from the row just read.
LoginFindUnique(p, u, password) ==
    LET user == users[u]
        arg == <<EmailOf(u), password>>
    IN  /\ At(p, "idle")
        /\ ~bcryptCompare(password, user.password)
        /\ IF isLocked(user, now)
           THEN /\ procs' = [procs EXCEPT ![p] =
                               [Idle EXCEPT !.pc = "done", !.call = "login",
                                            !.user = u,
                                            !.result = "ACCOUNT_LOCKED"]]
                /\ last' = Thrown("login", arg,
                                  ForbiddenError(<<"Account is locked. Try again in",
                                                   remainingMinutes(user, now),
                                                   "minutes.">>, "ACCOUNT_LOCKED"),
                                  Audited({"LOGIN_FAILED"}, u))
           ELSE /\ procs' = [procs EXCEPT ![p] =
                               [Idle EXCEPT !.pc = "update", !.call = "login",
                                            !.user = u,
                                            !.stored = {handleFailedLogin(user, now)}]]
                /\ UNCHANGED last
        /\ UNCHANGED <<now, users, sessions, redis, redisUp, auditUp, cleanup, nextId,
                       issued, streak, streakAt, burned>>

\* await prisma.user.update({ data: updateData }), then logLoginFailed and
\* the throw.
LoginUpdate(p) ==
    LET u == procs[p].user
        updateData == CHOOSE row \in procs[p].stored : TRUE
    IN  /\ At(p, "update")
        /\ users' = [users EXCEPT ![u] = applyUpdateData(@, updateData)]
        /\ streak' = [streak EXCEPT ![u] = streakAfterFailure(@, streakAt[u], now)]
        /\ streakAt' = [streakAt EXCEPT ![u] = now]
        /\ Finish(p, "INVALID_CREDENTIALS")
        /\ last' = Thrown("login", <<EmailOf(u)>>,
                          UnauthorizedError("Invalid email or password.",
                                            "INVALID_CREDENTIALS"),
                          Audited((IF updateData.failedLoginAttempts >= maxAttempts
                                   THEN {"ACCOUNT_LOCKED"} ELSE {})
                                  \cup {"LOGIN_FAILED"}, u))
        /\ UNCHANGED <<now, sessions, redis, redisUp, auditUp, cleanup, nextId,
                       issued, burned>>

-----------------------------------------------------------------------------
(* AuthService.logout and AuthService.revokeSession *)

Logout(tok, meta) ==
    LET found == findByToken(sessions, tok) IN
    /\ IF found = {}
       THEN /\ last' = Record("logout", <<tok>>, "TOKEN_NOT_FOUND", {}, {})
            /\ UNCHANGED <<sessions, redis>>
       ELSE /\ sessions' = markRevoked(sessions, tok)
            /\ redis' = addRefreshToken(redis, redisUp, tok, now)
            /\ last' = Record("logout", <<tok>>, "OK", {},
                           Audited({"LOGOUT"}, (CHOOSE r \in found : TRUE).userId))
    /\ UNCHANGED <<now, users, redisUp, auditUp, cleanup, nextId, issued, procs, streak,
                   streakAt, burned>>

RevokeSessionAnyOwner(u, sessionId, meta) ==
    LET found == {r \in sessions : r.id = sessionId} IN
    /\ IF found = {}
       THEN /\ last' = Record("revokeSession", <<u, sessionId>>,
                              "SESSION_NOT_FOUND", {}, {})
            /\ UNCHANGED <<sessions, redis>>
       ELSE /\ sessions' = markRevokedById(sessions, sessionId)
            /\ redis' = addRefreshToken(redis, redisUp,
                                        (CHOOSE r \in found : TRUE).token, now)
            /\ last' = Record("revokeSession", <<u, sessionId>>, "OK", {},
                              Audited({"SESSION_REVOKED"}, u))
    /\ UNCHANGED <<now, users, redisUp, auditUp, cleanup, nextId, issued, procs, streak,
                   streakAt, burned>>

\* findFirst({ where: { id: sessionId, userId } }), update, blacklist add
RevokeSession(u, sessionId, meta) ==
    LET found == {r \in sessions : r.id = sessionId /\ r.userId = u} IN
    /\ IF found = {}
       THEN /\ last' = Record("revokeSession", <<u, sessionId>>,
                              "SESSION_NOT_FOUND", {}, {})
            /\ UNCHANGED <<sessions, redis>>
       ELSE /\ sessions' = markRevokedById(sessions, sessionId)
            /\ redis' = addRefreshToken(redis, redisUp,
                                        (CHOOSE r \in found : TRUE).token, now)
            /\ last' = Record("revokeSession", <<u, sessionId>>, "OK", {},
                              Audited({"SESSION_REVOKED"}, u))
    /\ UNCHANGED <<now, users, redisUp, auditUp, cleanup, nextId, issued, procs, streak,
                   streakAt, burned>>

-----------------------------------------------------------------------------
(* The authenticate middleware *)

\* What authenticate answers for the request's token (a set: empty when the
\* request carries none).
authenticateIgnoresActive(toks, R, up, U, t) ==
    IF toks = {} THEN "TOKEN_MISSING"
    ELSE LET tok == CHOOSE x \in toks : TRUE IN
         IF isAccessTokenBlacklisted(R, up, tok, t) THEN "TOKEN_REVOKED"
         ELSE IF verifyAccessToken(tok, t) # "ok" THEN "TOKEN_INVALID"
         ELSE IF tok.userId \notin DOMAIN U THEN "USER_NOT_FOUND"
         ELSE "OK"

authenticate(toks, R, up, U, t) ==
    IF toks = {} THEN "TOKEN_MISSING"
    ELSE LET tok == CHOOSE x \in toks : TRUE IN
         IF isAccessTokenBlacklisted(R, up, tok, t) THEN "TOKEN_REVOKED"
         ELSE IF verifyAccessToken(tok, t) # "ok" THEN "TOKEN_INVALID"
         ELSE IF tok.userId \notin DOMAIN U THEN "USER_NOT_FOUND"
         ELSE IF ~U[tok.userId].isActive THEN "USER_INACTIVE"
         ELSE "OK"

Authenticate(toks) ==
    /\ last' = Record("authenticate", <<toks>>,
                      authenticate(toks, redis, redisUp, users, now), {}, {})
    /\ UNCHANGED <<now, users, sessions, redis, redisUp, auditUp, cleanup, nextId,
                   issued, procs, streak, streakAt, burned>>

\* TokenBlacklistService.addAccessToken, called for an access token: the
\* service offers it for immediate revocation.
AddAccessToken(tok) ==
    /\ redis' = addAccessToken(redis, redisUp, tok, now)
    /\ last' = Record("addAccessToken", <<tok>>, "OK", {}, {})
    /\ UNCHANGED <<now, users, sessions, redisUp, auditUp, cleanup, nextId, issued,
                   procs, streak, streakAt, burned>>

-----------------------------------------------------------------------------
(* AuthService.getUserSessions and the cleanup job *)

\* The columns getUserSessions selects.
SessionResponse(r) ==
    [id |-> r.id, userAgent |-> r.userAgent, ipAddress |-> r.ipAddress,
     createdAt |-> r.createdAt, expiresAt |-> r.expiresAt]

getUserSessionsAnyFlag(S, u, t) ==
    {SessionResponse(r) : r \in {x \in S : x.userId = u /\ x.expiresAt >= t}}

\* findMany({ where: { userId, isRevoked: false, expiresAt: { gte: now } } })
getUserSessions(S, u, t) ==
    {SessionResponse(r) :
        r \in {x \in S : x.userId = u /\ ~x.isRevoked /\ x.expiresAt >= t}}

\* orderBy: { createdAt: "desc" }: the orders the database may answer in, rows
\* created in the same instant coming in either order.
orderByCreatedAtDesc(rows) ==
    {f \in [1..Cardinality(rows) -> rows] :
        /\ \A i, j \in 1..Cardinality(rows) : i # j => f[i] # f[j]
        /\ \A i, j \in 1..Cardinality(rows) :
              i < j => f[i].createdAt >= f[j].createdAt}

GetUserSessions(u) ==
    /\ \E list \in orderByCreatedAtDesc(getUserSessions(sessions, u, now)) :
          last' = Record("getUserSessions", <<u>>, "OK", {list}, {})
    /\ UNCHANGED <<now, users, sessions, redis, redisUp, auditUp, cleanup, nextId,
                   issued, procs, streak, streakAt, burned>>

deleteExpiredTokensKeepsActive(S, t) ==
    {r \in S : ~(r.expiresAt < t /\ r.isRevoked)}

\* findMany({ where: { expiresAt: { lt: now } } }) and deleteMany of the rows
\* found, batch after batch, `now` being taken once when the sweep starts.
deleteExpiredTokens(S, t) == {r \in S : ~(r.expiresAt < t)}

DeleteExpiredTokens ==
    /\ sessions' = deleteExpiredTokens(sessions, now)
    /\ last' = Record("cleanup", <<>>, "OK", {}, {})
    /\ UNCHANGED <<now, users, redis, redisUp, auditUp, cleanup, nextId, issued, procs,
                   streak, streakAt, burned>>

-----------------------------------------------------------------------------
(* The cleanup job, one store call at a time: run r is a call of            *)
(* deleteExpiredTokens by the interval timer or at start-up.                *)

InProgress == {r \in Runs : cleanup.run[r].pc # "idle"}

\* The batches findMany may return: `take` rows among those matching, in no
\* stated order.
take(rows, n) ==
    IF Cardinality(rows) <= n THEN {rows}
    ELSE {batch \in SUBSET rows : Cardinality(batch) = n}

\* The run leaves the try block, by a break or by a throw: finally resets
\* isRunning.
EndRun(r, result) ==
    /\ cleanup' = [isRunning |-> FALSE, run |-> [cleanup.run EXCEPT ![r] = IdleRun]]
    /\ last' = Record("sweep", <<r>>, result, {cleanup.run[r].totalDeleted}, {})

deleteExpiredTokensStartsAnyway(r) ==
    /\ cleanup.run[r].pc = "idle"
    /\ cleanup' = [isRunning |-> TRUE,
                   run |-> [cleanup.run EXCEPT ![r] =
                               [IdleRun EXCEPT !.pc = "findMany", !.now = now]]]
    /\ last' = Record("sweep", <<r>>, "started", {}, {})
    /\ UNCHANGED <<now, users, sessions, redis, redisUp, auditUp, nextId, issued,
                   procs, streak, streakAt, burned>>

\* deleteExpiredTokens is called: it returns at once when a run is in
\* progress, and otherwise sets isRunning, takes `now` and issues findMany.
deleteExpiredTokensCalled(r) ==
    /\ cleanup.run[r].pc = "idle"
    /\ IF cleanup.isRunning
       THEN /\ last' = Record("sweep", <<r>>, "skipped", {}, {})
            /\ UNCHANGED cleanup
       ELSE /\ cleanup' = [isRunning |-> TRUE,
                           run |-> [cleanup.run EXCEPT ![r] =
                                       [IdleRun EXCEPT !.pc = "findMany",
                                                       !.now = now]]]
            /\ last' = Record("sweep", <<r>>, "started", {}, {})
    /\ UNCHANGED <<now, users, sessions, redis, redisUp, auditUp, nextId, issued,
                   procs, streak, streakAt, burned>>

\* await prisma.refreshToken.findMany: it throws, or returns a batch; an
\* empty batch ends the loop.
CleanupFindMany(r) ==
    LET run == cleanup.run[r]
        matching == {x \in sessions : x.expiresAt < run.now}
    IN  /\ run.pc = "findMany"
        /\ \/ EndRun(r, "failed")
           \/ \E expired \in take(matching, cleanupBatchSize) :
                 IF expired = {}
                 THEN EndRun(r, "done")
                 ELSE /\ cleanup' = [cleanup EXCEPT
                                        !.run[r].pc = "deleteMany",
                                        !.run[r].expired = {x.id : x \in expired}]
                      /\ UNCHANGED last
        /\ UNCHANGED <<now, users, sessions, redis, redisUp, auditUp, nextId,
                       issued, procs, streak, streakAt, burned>>

deleteManyNothing(S, ids) == S

\* deleteMany({ where: { id: { in: ids } } })
deleteMany(S, ids) == {x \in S : x.id \notin ids}

\* await prisma.refreshToken.deleteMany: it throws, or deletes the rows found;
\* a batch smaller than the batch size ends the loop.
CleanupDeleteMany(r) ==
    LET run == cleanup.run[r]
        count == Cardinality(sessions) - Cardinality(deleteMany(sessions, run.expired))
    IN  /\ run.pc = "deleteMany"
        /\ \/ EndRun(r, "failed") /\ UNCHANGED sessions
           \/ /\ sessions' = deleteMany(sessions, run.expired)
              /\ IF Cardinality(run.expired) < cleanupBatchSize
                 THEN /\ cleanup' = [isRunning |-> FALSE,
                                     run |-> [cleanup.run EXCEPT ![r] = IdleRun]]
                      /\ last' = Record("sweep", <<r>>, "done",
                                        {run.totalDeleted + count}, {})
                 ELSE /\ cleanup' = [cleanup EXCEPT
                                        !.run[r].pc = "findMany",
                                        !.run[r].expired = {},
                                        !.run[r].totalDeleted = @ + count]
                      /\ UNCHANGED last
        /\ UNCHANGED <<now, users, redis, redisUp, auditUp, nextId, issued, procs,
                       streak, streakAt, burned>>

-----------------------------------------------------------------------------
(* FingerprintService.hasSignificantChange *)

\* An IP address is the sequence of its segments and separators, a user agent
\* the set of the words it contains; the empty sequence and the empty set are
\* the empty string.

\* ip.includes(sep)
ipIncludes(ip, sep) == \E i \in 1..Len(ip) : ip[i] = sep

\* ip.split(sep): the pieces between the separators
RECURSIVE ipSplit(_, _)
ipSplit(ip, sep) ==
    IF ip = <<>> THEN <<<<>>>>
    ELSE LET rest == ipSplit(Tail(ip), sep) IN
         IF Head(ip) = sep THEN <<<<>>>> \o rest
         ELSE <<<<Head(ip)>> \o Head(rest)>> \o Tail(rest)

\* parts.slice(0, n)
slice(parts, n) == SubSeq(parts, 1, IF Len(parts) < n THEN Len(parts) ELSE n)

\* parts.join(sep)
RECURSIVE join(_, _)
join(parts, sep) ==
    IF parts = <<>> THEN <<>>
    ELSE IF Len(parts) = 1 THEN Head(parts)
    ELSE Head(parts) \o <<sep>> \o join(Tail(parts), sep)

\* First 3 octets for IPv4, first 4 segments for IPv6
getIPPrefix(ip) ==
    IF ipIncludes(ip, ".") THEN join(slice(ipSplit(ip, "."), 3), ".")
    ELSE IF ipIncludes(ip, ":") THEN join(slice(ipSplit(ip, ":"), 4), ":")
    ELSE ip

extractBrowserInfo(userAgent) ==
    [browser |->
        IF "Chrome" \in userAgent /\ "Edg" \notin userAgent THEN "chrome"
        ELSE IF "Firefox" \in userAgent THEN "firefox"
        ELSE IF "Safari" \in userAgent /\ "Chrome" \notin userAgent THEN "safari"
        ELSE IF "Edg" \in userAgent THEN "edge"
        ELSE "unknown",
     os |->
        IF "Windows" \in userAgent THEN "windows"
        ELSE IF "Mac OS" \in userAgent THEN "macos"
        ELSE IF "Linux" \in userAgent THEN "linux"
        ELSE IF "Android" \in userAgent THEN "android"
        ELSE IF "iPhone" \in userAgent \/ "iPad" \in userAgent THEN "ios"
        ELSE "unknown"]

isSimilarUserAgent(ua1, ua2) ==
    /\ extractBrowserInfo(ua1).browser = extractBrowserInfo(ua2).browser
    /\ extractBrowserInfo(ua1).os = extractBrowserInfo(ua2).os

hasSignificantChangeNeedsBoth(originalData, currentData) ==
    /\ originalData.ipAddress # <<>>
    /\ currentData.ipAddress # <<>>
    /\ getIPPrefix(originalData.ipAddress) # getIPPrefix(currentData.ipAddress)
    /\ originalData.userAgent # {}
    /\ currentData.userAgent # {}
    /\ ~isSimilarUserAgent(originalData.userAgent, currentData.userAgent)

hasSignificantChange(originalData, currentData) ==
    IF /\ originalData.ipAddress # <<>>
       /\ currentData.ipAddress # <<>>
       /\ originalData.ipAddress # currentData.ipAddress
       /\ getIPPrefix(originalData.ipAddress) # getIPPrefix(currentData.ipAddress)
    THEN TRUE
    ELSE IF /\ originalData.userAgent # {}
            /\ currentData.userAgent # {}
            /\ ~isSimilarUserAgent(originalData.userAgent, currentData.userAgent)
    THEN TRUE
    ELSE FALSE

\* A caller compares the device data of a session with that of a request.
HasSignificantChange(originalData, currentData) ==
    /\ last' = Record("hasSignificantChange", <<originalData, currentData>>, "OK",
                      {hasSignificantChange(originalData, currentData)}, {})
    /\ UNCHANGED <<now, users, sessions, redis, redisUp, auditUp, cleanup, nextId,
                   issued, procs, streak, streakAt, burned>>

-----------------------------------------------------------------------------
(* AdminService.unlockAccount, UserService.deleteAccount and changePassword *)

logAccountUnlocked(userId, unlockedBy) ==
    IF auditUp
    THEN {[action |-> "ACCOUNT_UNLOCKED", userId |-> userId,
           unlockedBy |-> unlockedBy]}
    ELSE {}

UnlockAccountOnlyWhenExpired(u, adminId) ==
    /\ IF u \notin DOMAIN users
       THEN /\ last' = Record("unlock", <<u, adminId>>, "USER_NOT_FOUND", {}, {})
            /\ UNCHANGED <<users, streak>>
       ELSE /\ users' = [users EXCEPT ![u] =
                           IF isLocked(@, now) THEN @
                           ELSE [@ EXCEPT !.failedLoginAttempts = 0,
                                          !.lockoutUntil = NULL,
                                          !.lastFailedLogin = NULL]]
            /\ streak' = [streak EXCEPT ![u] = 0]
            /\ last' = Record("unlock", <<u, adminId>>, "OK", {},
                           logAccountUnlocked(u, adminId))
    /\ UNCHANGED <<now, sessions, redis, redisUp, auditUp, cleanup, nextId, issued, procs,
                   streakAt, burned>>

UnlockAccount(u, adminId) ==
    /\ IF u \notin DOMAIN users
       THEN /\ last' = Record("unlock", <<u, adminId>>, "USER_NOT_FOUND", {}, {})
            /\ UNCHANGED <<users, streak>>
       ELSE /\ users' = [users EXCEPT ![u] =
                           [@ EXCEPT !.failedLoginAttempts = 0,
                                     !.lockoutUntil = NULL,
                                     !.lastFailedLogin = NULL]]
            /\ streak' = [streak EXCEPT ![u] = 0]
            /\ last' = Record("unlock", <<u, adminId>>, "OK", {},
                           logAccountUnlocked(u, adminId))
    /\ UNCHANGED <<now, sessions, redis, redisUp, auditUp, cleanup, nextId, issued, procs,
                   streakAt, burned>>

\* The refresh tokens handed to user u so far.
IssuedTo(u) == {h.refresh : h \in {q \in issued : q.refresh.userId = u}}

\* UserService.deleteAccount
DeleteAccount(u) ==
    /\ IF u \notin DOMAIN users
       THEN /\ last' = Record("deleteAccount", <<u>>, "USER_NOT_FOUND", {}, {})
            /\ UNCHANGED <<users, sessions, burned>>
       ELSE /\ users' = [users EXCEPT ![u] = [@ EXCEPT !.isActive = FALSE]]
            /\ sessions' = markAllRevokedOfUser(sessions, u)
            /\ burned' = burned \cup IssuedTo(u)
            /\ last' = Record("deleteAccount", <<u>>, "OK", {}, {})
    /\ UNCHANGED <<now, redis, redisUp, auditUp, cleanup, nextId, issued, procs,
                   streak, streakAt>>

\* UserService.changePassword
ChangePassword(u, currentPassword, newPassword) ==
    LET code == IF u \notin DOMAIN users THEN "USER_NOT_FOUND"
                ELSE IF ~bcryptCompare(currentPassword, users[u].password)
                     THEN "INVALID_PASSWORD"
                ELSE IF currentPassword = newPassword THEN "SAME_PASSWORD"
                ELSE "OK"
    IN  /\ IF code # "OK"
           THEN UNCHANGED <<users, sessions, burned>>
           ELSE /\ users' = [users EXCEPT ![u] =
                               [@ EXCEPT !.password = bcryptHash(newPassword)]]
                /\ sessions' = markAllRevokedOfUser(sessions, u)
                /\ burned' = burned \cup IssuedTo(u)
        /\ last' = Record("changePassword", <<u, currentPassword, newPassword>>,
                          code, {}, {})
        /\ UNCHANGED <<now, redis, redisUp, auditUp, cleanup, nextId, issued, procs,
                       streak, streakAt>>

-----------------------------------------------------------------------------
(* Faults of the environment *)

\* Redis becomes unreachable, or reachable again; its keys are kept.
RedisFault ==
    /\ redisUp' = ~redisUp
    /\ last' = Record("redisFault", <<>>, "OK", {}, {})
    /\ UNCHANGED <<now, users, sessions, redis, auditUp, cleanup, nextId, issued, procs,
                   streak, streakAt, burned>>

\* Inserts into audit_logs start failing, or succeed again.
AuditFault ==
    /\ auditUp' = ~auditUp
    /\ last' = Record("auditFault", <<>>, "OK", {}, {})
    /\ UNCHANGED <<now, users, sessions, redis, redisUp, cleanup, nextId, issued,
                   procs, streak, streakAt, burned>>

-----------------------------------------------------------------------------
(* The clock *)

\* Time passes until instant t; Redis drops the keys whose TTL has run out.
Tick(t) ==
    /\ now < t
    /\ now' = t
    /\ redis' = RedisExpire(redis, t)
    /\ last' = Record("tick", <<t>>, "OK", {}, {})
    /\ UNCHANGED <<users, sessions, redisUp, auditUp, cleanup, nextId, issued, procs,
                   streak, streakAt, burned>>

-----------------------------------------------------------------------------
(* Inputs *)

Meta1 == [ipAddress |-> "10.0.0.1", userAgent |-> "Firefox"]

Meta2 == [ipAddress |-> "192.168.5.9", userAgent |-> "Chrome"]

Metas == {Meta1, Meta2}

RefreshTokensIssued == {p.refresh : p \in issued}
AccessTokensIssued == {p.access : p \in issued}

\* What a client may present as a refresh token: one it was given, an access
\* token, or a tampered one.
RefreshInputs ==
    RefreshTokensIssued \cup {Forge(tok) : tok \in RefreshTokensIssued}

\* A refresh token signed with the service's secret for which the store holds
\* no row (identifier 0 is never given to a row).
Orphan(u) == generateRefreshToken(u, 0, 0)

\* The same, signed without an exp claim.
OrphanNoExp(u) == [Orphan(u) EXCEPT !.exp = NULL]

AccessInputs == AccessTokensIssued \cup RefreshTokensIssued

-----------------------------------------------------------------------------
(* Spec: the token lifecycle, one request at a time *)

\* The instants the clock moves to from 0: the end of the grace window of a
\* rotation made at 0, and the expiry of a token issued at 0. Requests arriving
\* before the first move are inside the grace window.
TokenInstants == {GRACE_PERIOD_SECONDS, REFRESH_TOKEN_EXPIRY}

Next ==
    \/ \E u \in Users : Login(EmailOf(u), InitialPassword, Meta1)
    \/ \E tok \in RefreshTokensIssued : RefreshTokens(tok)
    \/ \E tok \in RefreshTokensIssued : Logout(tok, Meta1)
    \/ \E u \in Users : RevokeAllUserTokens(u, Meta1)
    \/ \E t \in TokenInstants : Tick(t)

Spec == Init /\ [][Next]_vars

-----------------------------------------------------------------------------
(* SpecVerify: refresh requests carrying expired, tampered or foreign tokens *)

\* The instants the clock moves to from 0: one where the tokens issued at 0
\* are still fresh, and their expiry.
VerifyInstants == {GRACE_PERIOD_SECONDS, REFRESH_TOKEN_EXPIRY}

NextVerify ==
    \/ Login(EmailOf("u1"), InitialPassword, Meta1)
    \/ \E tok \in RefreshInputs \cup AccessTokensIssued
                      \cup {Orphan("u1"), OrphanNoExp("u1")} :
          RefreshTokens(tok)
    \/ \E tok \in RefreshTokensIssued \cup {Orphan("u1")} : Logout(tok, Meta1)
    \/ \E t \in VerifyInstants : Tick(t)

SpecVerify == Init /\ [][NextVerify]_vars

-----------------------------------------------------------------------------
(* SpecLock: logins against one account, its lockout, admin unlock, deletion *)

\* The instants the clock moves to from 0: inside a lockout started at 0, at
\* its end, at the end of the reset window and just after it.
\* The admins who unlock, and a user id no row carries.
Admins == {"admin1", "admin2"}

UnknownUser == "u9"

LockInstants ==
    {60, lockoutDurationMinutes * 60, resetWindowMinutes * 60,
     resetWindowMinutes * 60 + 1}

NextLock ==
    \/ \E e \in {EmailOf("u1"), "nobody@x"} : \E pw \in Passwords :
          Login(e, pw, Meta1)
    \/ \E u \in {"u1", UnknownUser} : \E a \in Admins : UnlockAccount(u, a)
    \/ DeleteAccount("u1")
    \/ \E t \in LockInstants : Tick(t)

SpecLock == Init /\ [][NextLock]_vars

-----------------------------------------------------------------------------
(* SpecAuth: requests through the authenticate middleware while sessions end *)

\* The instants the clock moves to from 0: one where an access token issued at
\* 0 is still fresh, and its expiry.
AuthInstants == {60, ACCESS_TOKEN_EXPIRY}

SessionIds == {r.id : r \in sessions}

NextAuth ==
    \/ Login(EmailOf("u1"), InitialPassword, Meta1)
    \/ \E tok \in RefreshTokensIssued : Logout(tok, Meta1)
    \/ \E u \in Users : \E id \in SessionIds : RevokeSession(u, id, Meta1)
    \/ \E u \in Users : RevokeAllUserTokens(u, Meta1)
    \/ \E toks \in {{}} \cup {{tok} : tok \in AccessInputs} : Authenticate(toks)
    \/ DeleteAccount("u1")
    \/ \E t \in AuthInstants : Tick(t)

SpecAuth == Init /\ [][NextAuth]_vars

-----------------------------------------------------------------------------
(* SpecConc: refresh and revoke-all requests of one user running concurrently *)

NextConc ==
    \/ Login(EmailOf("u1"), InitialPassword, Meta1)
    \/ \E p \in Procs :
          \/ \E tok \in RefreshTokensIssued : RefreshStart(p, tok)
          \/ RefreshIsBlacklisted(p)
          \/ RefreshFindUnique(p)
          \/ RefreshUpdate(p)
          \/ RefreshSetBlacklist(p)
          \/ RefreshSetGrace(p)
          \/ RefreshCreate(p)
          \/ RefreshReturn(p)
          \/ RefreshReuseAdd(p)
          \/ RevokeFindMany(p)
          \/ RevokeUpdateMany(p)
          \/ RevokeBlacklist(p)
          \/ RefreshThrowReuse(p)
          \/ RevokeAllStart(p, "u1", Meta1)
          \/ RevokeAllReturn(p)

SpecConc == Init /\ [][NextConc]_vars

-----------------------------------------------------------------------------
(* SpecFault: the token lifecycle while Redis or the audit table may fail *)

\* The instant the clock moves to from 0: the end of a grace window opened at 0.
FaultInstants == {GRACE_PERIOD_SECONDS}

NextFault ==
    \/ Login(EmailOf("u1"), InitialPassword, Meta1)
    \/ \E tok \in RefreshTokensIssued : RefreshTokens(tok)
    \/ \E tok \in RefreshTokensIssued : Logout(tok, Meta1)
    \/ RedisFault
    \/ AuditFault
    \/ \E t \in FaultInstants : Tick(t)

SpecFault == Init /\ [][NextFault]_vars

-----------------------------------------------------------------------------
(* Vocabulary of the properties *)

\* The step just taken handled a request of kind op.
Did(op) == last'.op = op

\* The token presented in the request just handled (refresh, logout).
Presented == last'.arg[1]

ValidRefreshToken(tok, t) ==
    tok.sig = "REFRESH_TOKEN_SECRET" /\ (tok.exp = NULL \/ t < tok.exp)

AllRevokedOf(S, u) == \A r \in S : r.userId = u => r.isRevoked

\* The request just handled handed out no token and created no session row.
IssuedNothing ==
    /\ last'.out = {}
    /\ issued' = issued
    /\ {r.token : r \in sessions'} = {r.token : r \in sessions}

\* Refresh token a has been exchanged for a new pair.
Rotated(a) == \E p \in issued : p.parent = {a}

\* The session table over the life of its rows: logins of two users, logout,
\* the listing of sessions and the cleanup job, up to and past the expiry of
\* the rows.
SessionInstants ==
    {1, REFRESH_TOKEN_EXPIRY, REFRESH_TOKEN_EXPIRY + 1}

NextSessions ==
    \/ \E u \in Users : Login(EmailOf(u), InitialPassword, Meta1)
    \/ \E tok \in RefreshTokensIssued : Logout(tok, Meta1)
    \/ \E u \in Users : GetUserSessions(u)
    \/ DeleteExpiredTokens
    \/ \E t \in SessionInstants : Tick(t)

SpecSessions == Init /\ [][NextSessions]_vars

\* Every operation that writes an audit record, with the inserts into
\* audit_logs failing and succeeding.
NextAudit ==
    \/ \E pw \in Passwords : Login(EmailOf("u1"), pw, Meta1)
    \/ \E tok \in RefreshTokensIssued : RefreshTokens(tok)
    \/ \E tok \in RefreshTokensIssued : Logout(tok, Meta1)
    \/ \E id \in SessionIds : RevokeSession("u1", id, Meta1)
    \/ RevokeAllUserTokens("u1", Meta1)
    \/ \E a \in Admins : UnlockAccount("u1", a)
    \/ AuditFault

SpecAudit == Init /\ [][NextAudit]_vars

\* Addresses: two hosts of one /24, a host of another, two IPv6 hosts sharing
\* their first four segments, and none.
IpAddresses ==
    {<<>>,
     <<"10", ".", "0", ".", "0", ".", "1">>,
     <<"10", ".", "0", ".", "0", ".", "2">>,
     <<"10", ".", "0", ".", "1", ".", "1">>,
     <<"2001", ":", "db8", ":", "0", ":", "1", ":", "a", ":", ":", "1">>,
     <<"2001", ":", "db8", ":", "0", ":", "1", ":", "b", ":", ":", "2">>}

\* User agents: two versions of Chrome on Windows, Firefox on Linux, and none.
UserAgents ==
    {{},
     {"Mozilla", "Windows", "AppleWebKit", "Chrome", "120", "Safari"},
     {"Mozilla", "Windows", "AppleWebKit", "Chrome", "121", "Safari"},
     {"Mozilla", "Linux", "Gecko", "Firefox"}}

\* Further devices: Edge behind an IPv4-mapped IPv6 address, Safari on an
\* iPhone on another IPv6 network, a command-line client on a named host.
OtherDevices ==
    {[ipAddress |-> <<":", ":", "ffff", ":", "10", ".", "0", ".", "0", ".", "1">>,
      userAgent |-> {"Mozilla", "Windows", "AppleWebKit", "Chrome", "120",
                     "Safari", "Edg"}],
     [ipAddress |-> <<"2001", ":", "db8", ":", "0", ":", "2", ":", ":", "1">>,
      userAgent |-> {"Mozilla", "iPhone", "Mac OS", "AppleWebKit", "Safari"}],
     [ipAddress |-> <<"localhost">>, userAgent |-> {"curl"}]}

FingerprintData ==
    [ipAddress : IpAddresses, userAgent : UserAgents] \cup OtherDevices

NextFingerprint ==
    \E originalData, currentData \in FingerprintData :
        HasSignificantChange(originalData, currentData)

SpecFingerprint == Init /\ [][NextFingerprint]_vars

\* Rotation of sessions opened from two devices.
NextMeta ==
    \/ \E u \in Users : \E m \in Metas : Login(EmailOf(u), InitialPassword, m)
    \/ \E tok \in RefreshTokensIssued : RefreshTokens(tok)

SpecMeta == Init /\ [][NextMeta]_vars

-----------------------------------------------------------------------------
(* Properties of refresh-token rotation, under Spec *)

\* C1: a refresh with a validly signed, unexpired token whose row is already
\* revoked fails with TOKEN_REUSE_DETECTED and leaves every row of that user
\* revoked; every later refresh with a token the user held at that moment is
\* rejected and issues nothing.
C1_ReuseContainment ==
    [][Did("refresh") =>
         /\ (/\ ValidRefreshToken(Presented, now)
             /\ \E r \in sessions : r.token = Presented /\ r.isRevoked)
            => /\ last'.result = "TOKEN_REUSE_DETECTED"
               /\ AllRevokedOf(sessions', Presented.userId)
               /\ IssuedNothing
               /\ {q.refresh : q \in {x \in issued : x.refresh.userId = Presented.userId}}
                     \subseteq burned'
         /\ Presented \in burned
            => /\ last'.result # "OK"
               /\ IssuedNothing]_vars

\* C1 witness: a token that was burned together with an older one of the same
\* user is presented and is refused as reuse, with all the user's rows revoked.
C1_Witness ==
    /\ last.op = "refresh"
    /\ last.result = "TOKEN_REUSE_DETECTED"
    /\ \E a \in burned : \E b \in burned :
          /\ last.arg = <<b>>
          /\ a.userId = b.userId
          /\ a.jti < b.jti
          /\ \E r \in sessions : r.token = b /\ r.isRevoked
    /\ Cardinality({r \in sessions : r.userId = last.arg[1].userId}) >= 2
    /\ AllRevokedOf(sessions, last.arg[1].userId)

\* C3 as stated: once A has been rotated, a refresh with A at any later time
\* fails with TOKEN_REUSE_DETECTED and leaves every session of the user revoked.
C3_AnyLaterTime ==
    [][(Did("refresh") /\ Rotated(Presented))
         => /\ IssuedNothing
            /\ last'.result = "TOKEN_REUSE_DETECTED"
            /\ AllRevokedOf(sessions', Presented.userId)]_vars

\* C3: once A has been rotated, a refresh with A never returns tokens; while A
\* is unexpired, also inside the grace window, it fails with
\* TOKEN_REUSE_DETECTED and leaves every session of the user revoked; once A
\* has expired it fails with REFRESH_TOKEN_EXPIRED and revokes nothing.
C3_RotatedTokenRefused ==
    [][(Did("refresh") /\ Rotated(Presented))
         => /\ IssuedNothing
            /\ now < Presented.exp
               => /\ last'.result = "TOKEN_REUSE_DETECTED"
                  /\ AllRevokedOf(sessions', Presented.userId)
            /\ now >= Presented.exp
               => /\ last'.result = "REFRESH_TOKEN_EXPIRED"
                  /\ sessions' = sessions]_vars

\* C3 witness: A is refused inside its grace window, before B was ever used,
\* and B's row is revoked.
C3_Witness ==
    /\ last.op = "refresh"
    /\ last.result = "TOKEN_REUSE_DETECTED"
    /\ RedisExists(redis, graceKey(last.arg[1]), now)
    /\ \E p \in issued :
          /\ p.parent = {last.arg[1]}
          /\ ~Rotated(p.refresh)
          /\ \E r \in sessions : r.token = p.refresh /\ r.isRevoked

\* C5: a refresh with a valid token whose row exists and is not revoked
\* returns a new pair for the same user, marks the old row revoked and adds
\* exactly one new, non-revoked row of that user; every other row is unchanged.
C5_Rotation ==
    [][(/\ Did("refresh")
        /\ ValidRefreshToken(Presented, now)
        /\ \E r \in sessions : r.token = Presented /\ ~r.isRevoked)
         => LET old == {r \in sessions : r.token = Presented}
                others == sessions \ old
                fresh == {r \in sessions' : r.token \notin {x.token : x \in sessions}}
            IN  /\ last'.result = "OK"
                /\ \E pair \in last'.out :
                      /\ last'.out = {pair}
                      /\ pair.refresh.userId = Presented.userId
                      /\ pair.access.userId = Presented.userId
                      /\ pair.refresh \notin {q.refresh : q \in issued}
                      /\ pair.access \notin {q.access : q \in issued}
                      /\ ValidRefreshToken(pair.refresh, now)
                      /\ \A r \in fresh : r.token = pair.refresh
                /\ Cardinality(fresh) = 1
                /\ \A r \in fresh : ~r.isRevoked /\ r.userId = Presented.userId
                /\ sessions' = others \cup fresh
                                 \cup {[r EXCEPT !.isRevoked = TRUE] : r \in old}]_vars

\* C5 witness: a rotation has just succeeded while another session stays active.
C5_Witness ==
    /\ last.op = "refresh"
    /\ last.result = "OK"
    /\ \E r \in sessions : r.token = last.arg[1] /\ r.isRevoked
    /\ \E pair \in last.out : \E r \in sessions : r.token = pair.refresh /\ ~r.isRevoked
    /\ Cardinality({r \in sessions : ~r.isRevoked}) >= 2

-----------------------------------------------------------------------------
(* Properties of token verification, under SpecVerify *)

\* C10: a refresh whose token fails verification is rejected with
\* REFRESH_TOKEN_EXPIRED when the token is validly signed and past its exp, and
\* with REFRESH_TOKEN_INVALID when its signature does not verify; no session
\* row and no cache entry changes, and no audit row is written.
C10_VerificationFailure ==
    [][(Did("refresh") /\ ~ValidRefreshToken(Presented, now))
         => /\ Presented.sig = "REFRESH_TOKEN_SECRET"
               => last'.result = "REFRESH_TOKEN_EXPIRED"
            /\ Presented.sig # "REFRESH_TOKEN_SECRET"
               => last'.result = "REFRESH_TOKEN_INVALID"
            /\ sessions' = sessions
            /\ redis' = redis
            /\ last'.audit = {}
            /\ IssuedNothing]_vars

\* C10 witness: an expired token whose session row is still active has been
\* refused as expired.
C10_Witness ==
    /\ last.op = "refresh"
    /\ last.result = "REFRESH_TOKEN_EXPIRED"
    /\ \E r \in sessions : r.token = last.arg[1] /\ ~r.isRevoked

\* C11: a refresh with a validly signed, unexpired token that has no session
\* row fails with TOKEN_REUSE_DETECTED, leaves every session of the token's
\* user revoked and issues no tokens.
C11_UnknownTokenIsReuse ==
    [][(/\ Did("refresh")
        /\ ValidRefreshToken(Presented, now)
        /\ \A r \in sessions : r.token # Presented)
         => /\ last'.result = "TOKEN_REUSE_DETECTED"
            /\ AllRevokedOf(sessions', Presented.userId)
            /\ \A r \in sessions : r.userId # Presented.userId => r \in sessions'
            /\ IssuedNothing]_vars

\* C11 witness: a token without a row has been refused as reuse and a session
\* of its user that was issued by a login is now revoked.
C11_Witness ==
    /\ last.op = "refresh"
    /\ last.result = "TOKEN_REUSE_DETECTED"
    /\ ValidRefreshToken(last.arg[1], now)
    /\ \A r \in sessions : r.token # last.arg[1]
    /\ \E r \in sessions : r.userId = last.arg[1].userId /\ r.isRevoked
    /\ AllRevokedOf(sessions, last.arg[1].userId)

\* The session rows with the row of tok, if any, marked revoked.
WithRevoked(S, tok) ==
    {IF r.token = tok THEN [r EXCEPT !.isRevoked = TRUE] ELSE r : r \in S}

\* Every key of the cache other than `key` is as it was before the step.
OnlyKeyWritten(key) ==
    /\ DOMAIN redis' \ {key} = DOMAIN redis \ {key}
    /\ \A k \in DOMAIN redis \ {key} : redis'[k] = redis[k]

\* A refresh with a token whose row is revoked returns no tokens.
RevokedTokenRefused ==
    (Did("refresh") /\ \E r \in sessions : r.token = Presented /\ r.isRevoked)
        => last'.result # "OK" /\ IssuedNothing

\* C14 as stated: logout of a token with a row marks the row revoked, puts the
\* token in the blacklist without grace marker and records LOGOUT, and a later
\* refresh with it is rejected; logout of a token without a row fails with
\* SESSION_NOT_FOUND and changes no row and no cache entry.
C14_LogoutSessionNotFound ==
    [][/\ Did("logout")
          => IF \E r \in sessions : r.token = Presented
             THEN /\ last'.result = "OK"
                  /\ sessions' = WithRevoked(sessions, Presented)
                  /\ RedisExists(redis', refreshKey(Presented), now)
                  /\ OnlyKeyWritten(refreshKey(Presented))
                  /\ \E r \in sessions :
                        /\ r.token = Presented
                        /\ [action |-> "LOGOUT", userId |-> r.userId] \in last'.audit
             ELSE /\ last'.result = "SESSION_NOT_FOUND"
                  /\ sessions' = sessions
                  /\ redis' = redis
       /\ RevokedTokenRefused]_vars

\* C14: logout of a token with a row marks the row revoked, records LOGOUT
\* and, when the token is unexpired, writes its blacklist entry (lasting until
\* the token's exp) and no grace marker; a later refresh with the token is
\* rejected; logout of a token without a row fails with TOKEN_NOT_FOUND and
\* changes no row and no cache entry.
C14_Logout ==
    [][/\ Did("logout")
          => IF \E r \in sessions : r.token = Presented
             THEN /\ last'.result = "OK"
                  /\ sessions' = WithRevoked(sessions, Presented)
                  /\ IF now < Presented.exp
                     THEN /\ RedisExists(redis', refreshKey(Presented), now)
                          /\ redis'[refreshKey(Presented)] = Presented.exp
                          /\ OnlyKeyWritten(refreshKey(Presented))
                     ELSE redis' = redis
                  /\ \E r \in sessions :
                        /\ r.token = Presented
                        /\ [action |-> "LOGOUT", userId |-> r.userId] \in last'.audit
             ELSE /\ last'.result = "TOKEN_NOT_FOUND"
                  /\ sessions' = sessions
                  /\ redis' = redis
                  /\ last'.audit = {}
       /\ RevokedTokenRefused]_vars

\* C14 witness: a token has been logged out, its row is revoked and it is in
\* the blacklist without a grace marker.
C14_Witness ==
    /\ last.op = "logout"
    /\ last.result = "OK"
    /\ \E r \in sessions : r.token = last.arg[1] /\ r.isRevoked
    /\ RedisExists(redis, refreshKey(last.arg[1]), now)
    /\ ~RedisExists(redis, graceKey(last.arg[1]), now)

\* The refresh tokens that can reach the blacklist in SpecVerify.
BlacklistCandidates == RefreshTokensIssued \cup {Orphan("u1"), OrphanNoExp("u1")}

\* The step just taken has written `key` (created it or changed its expiry).
Written(key) ==
    /\ key \in DOMAIN redis'
    /\ key \notin DOMAIN redis \/ redis'[key] # redis[key]

\* C17: a blacklist entry is written with a time-to-live of the token's exp
\* minus now, and only for a token that carries an exp still ahead; at or
\* after a token's exp the cache holds no entry for it and does not report it
\* blacklisted; a grace marker is written to last 10 seconds.
C17_BlacklistTtl ==
    [][\A tok \in BlacklistCandidates :
         /\ Written(refreshKey(tok))
            => /\ tok.exp # NULL
               /\ now < tok.exp
               /\ redis'[refreshKey(tok)] - now = tok.exp - now
         /\ Written(graceKey(tok))
            => redis'[graceKey(tok)] - now = GRACE_PERIOD_SECONDS
         /\ (tok.exp = NULL \/ now' >= tok.exp)
            => /\ refreshKey(tok) \notin DOMAIN redis'
               /\ ~isRefreshTokenBlacklisted(redis', redisUp', tok, now')]_vars

\* C17 witness: a token that was blacklisted has expired and the cache has
\* dropped its entry, while the entry of a younger token is kept.
C17_Witness ==
    \E a \in RefreshTokensIssued : \E b \in RefreshTokensIssued :
        /\ now >= a.exp
        /\ \E r \in sessions : r.token = a /\ r.isRevoked
        /\ refreshKey(a) \notin DOMAIN redis
        /\ now < b.exp
        /\ refreshKey(b) \in DOMAIN redis
        /\ redis[refreshKey(b)] = b.exp

-----------------------------------------------------------------------------
(* Properties of login and the lockout guard, under SpecLock *)

\* The step just taken handled a login for the address of account u.
LoginOf(u) == Did("login") /\ last'.arg[1] = users[u].email

\* The password of the login just handled is the one stored for u.
CorrectPassword(u) == users[u].password = bcryptHash(last'.arg[2])

Locked(u) == users[u].lockoutUntil # NULL /\ users[u].lockoutUntil > now

LockoutPassed(u) == users[u].lockoutUntil # NULL /\ users[u].lockoutUntil <= now

CountersReset(row) ==
    /\ row.failedLoginAttempts = 0
    /\ row.lockoutUntil = NULL
    /\ row.lastFailedLogin = NULL

\* The fifth wrong-password login in a row, each within the window of the one
\* before, has just been handled for u.
FifthFailure(u) == streak[u] = maxAttempts - 1 /\ streak'[u] = maxAttempts

LocksOnFifthFailure(u) ==
    FifthFailure(u)
        => /\ users'[u].lockoutUntil = now + lockoutDurationMinutes * 60
           /\ [action |-> "ACCOUNT_LOCKED", userId |-> u] \in last'.audit

RefusesWhileLocked(u) ==
    (LoginOf(u) /\ Locked(u)) => last'.result = "ACCOUNT_LOCKED"

\* C6 as stated: five wrong passwords in a row lock the account for 15
\* minutes and emit ACCOUNT_LOCKED; every login before lockoutUntil fails with
\* ACCOUNT_LOCKED; a correct-password login once lockoutUntil has passed
\* succeeds and resets the three lockout fields.
C6_LockoutCycle ==
    [][\A u \in Users :
         /\ LocksOnFifthFailure(u)
         /\ RefusesWhileLocked(u)
         /\ (LoginOf(u) /\ CorrectPassword(u) /\ LockoutPassed(u))
            => /\ last'.result = "OK"
               /\ CountersReset(users'[u])]_vars

\* C6: as above, the login after the lockout succeeding when the account is
\* still active; on a deactivated account it fails with ACCOUNT_INACTIVE and
\* the lockout fields keep their values.
C6_LockoutCycleActive ==
    [][\A u \in Users :
         /\ LocksOnFifthFailure(u)
         /\ RefusesWhileLocked(u)
         /\ (LoginOf(u) /\ CorrectPassword(u) /\ LockoutPassed(u))
            => IF users[u].isActive
               THEN /\ last'.result = "OK"
                    /\ CountersReset(users'[u])
               ELSE /\ last'.result = "ACCOUNT_INACTIVE"
                    /\ users' = users]_vars

\* C6 witness: after the fifth failure locked the account, a login with the
\* correct password has been refused with ACCOUNT_LOCKED.
C6_Witness ==
    /\ last.op = "login"
    /\ last.result = "ACCOUNT_LOCKED"
    /\ \E u \in Users :
          /\ last.arg = <<users[u].email, InitialPassword>>
          /\ streak[u] = maxAttempts
          /\ users[u].lockoutUntil = streakAt[u] + lockoutDurationMinutes * 60
          /\ users[u].lockoutUntil > now

\* C7: an account whose lockoutUntil lies in the future has
\* failedLoginAttempts >= 5 and has seen at least 5 wrong passwords in a row
\* within the window: fewer never lock it.
C7_LockedImpliesFiveFailures ==
    \A u \in Users :
        (users[u].lockoutUntil # NULL /\ users[u].lockoutUntil > now)
            => /\ users[u].failedLoginAttempts >= maxAttempts
               /\ streak[u] >= maxAttempts

\* C7 witness: four wrong passwords in a row and the account is not locked.
C7_Witness ==
    /\ last.op = "login"
    /\ last.result = "INVALID_CREDENTIALS"
    /\ \E u \in Users :
          /\ last.arg[1] = users[u].email
          /\ streak[u] = maxAttempts - 1
          /\ users[u].failedLoginAttempts = maxAttempts - 1
          /\ users[u].lockoutUntil = NULL

\* C8: a login against a locked account fails with ACCOUNT_LOCKED whatever the
\* password, creates no session row, issues no token and leaves the user row
\* (failedLoginAttempts, lastFailedLogin, lockoutUntil) unchanged.
C8_LockedLoginChangesNothing ==
    [][\A u \in Users :
         (LoginOf(u) /\ Locked(u))
            => /\ last'.result = "ACCOUNT_LOCKED"
               /\ IssuedNothing
               /\ sessions' = sessions
               /\ users' = users]_vars

\* C8 witness: a wrong-password login has been refused with ACCOUNT_LOCKED on
\* an account that is locked.
C8_Witness ==
    /\ last.op = "login"
    /\ last.result = "ACCOUNT_LOCKED"
    /\ \E u \in Users :
          /\ last.arg[1] = users[u].email
          /\ ~bcryptCompare(last.arg[2], users[u].password)
          /\ users[u].lockoutUntil # NULL
          /\ users[u].lockoutUntil > now

\* C9: a correct-password login on an existing, active, unlocked account adds
\* exactly one non-revoked session row of that user and returns a pair whose
\* tokens carry that user's id; a login that fails adds no session row.
C9_LoginCreatesOneSession ==
    [][/\ \A u \in Users :
            (LoginOf(u) /\ CorrectPassword(u) /\ users[u].isActive /\ ~Locked(u))
               => LET fresh == sessions' \ sessions IN
                  /\ last'.result = "OK"
                  /\ Cardinality(fresh) = 1
                  /\ sessions \subseteq sessions'
                  /\ \E pair \in last'.out :
                        /\ last'.out = {pair}
                        /\ pair.access.userId = u
                        /\ pair.refresh.userId = u
                        /\ \A r \in fresh :
                              r.userId = u /\ ~r.isRevoked /\ r.token = pair.refresh
       /\ (Did("login") /\ last'.result # "OK")
            => sessions' = sessions /\ IssuedNothing]_vars

\* C9 witness: a second successful login of the same user, both rows active.
C9_Witness ==
    /\ last.op = "login"
    /\ last.result = "OK"
    /\ \E pair \in last.out :
          Cardinality({r \in sessions :
                          r.userId = pair.refresh.userId /\ ~r.isRevoked}) = 2

\* C18: a wrong-password login against an account that is not locked sets
\* failedLoginAttempts to 1 when more than 30 minutes have passed since
\* lastFailedLogin and to the previous value plus 1 otherwise, and sets
\* lastFailedLogin to the current time in both cases.
C18_FailureCounter ==
    [][\A u \in Users :
         (LoginOf(u) /\ ~Locked(u) /\ ~CorrectPassword(u))
            => /\ users'[u].failedLoginAttempts =
                     (IF users[u].lastFailedLogin # NULL
                         /\ now - users[u].lastFailedLogin > resetWindowMinutes * 60
                      THEN 1
                      ELSE users[u].failedLoginAttempts + 1)
               /\ users'[u].lastFailedLogin = now]_vars

\* C18 witness: a wrong password on an account whose lockout has passed and
\* whose last failure is more than 30 minutes old has started the count again
\* at 1.
C18_Witness ==
    /\ last.op = "login"
    /\ last.result = "INVALID_CREDENTIALS"
    /\ \E u \in Users :
          /\ last.arg[1] = users[u].email
          /\ users[u].failedLoginAttempts = 1
          /\ users[u].lastFailedLogin = now
          /\ users[u].lockoutUntil # NULL
          /\ users[u].lockoutUntil <= now

\* C19: a successful login on an account with failedLoginAttempts > 0 sets
\* failedLoginAttempts to 0 and lockoutUntil and lastFailedLogin to null; and
\* an account that has seen fewer than 5 wrong passwords since its last
\* successful login is not locked by a login.
C19_SuccessResetsCounters ==
    [][\A u \in Users :
         /\ (LoginOf(u) /\ last'.result = "OK" /\ users[u].failedLoginAttempts > 0)
               => /\ CountersReset(users'[u])
                  /\ streak'[u] = 0
         /\ (LoginOf(u) /\ streak'[u] < maxAttempts)
               => /\ users'[u].failedLoginAttempts = streak'[u]
                  /\ ~(/\ users'[u].lockoutUntil # NULL
                       /\ users'[u].lockoutUntil > now')]_vars

\* C19 witness: four wrong passwords after a successful login, and the
\* account is not locked.
C19_Witness ==
    /\ last.op = "login"
    /\ last.result = "INVALID_CREDENTIALS"
    /\ \E u \in Users :
          /\ last.arg[1] = users[u].email
          /\ \E r \in sessions : r.userId = u
          /\ streak[u] = maxAttempts - 1
          /\ users[u].failedLoginAttempts = maxAttempts - 1
          /\ users[u].lockoutUntil = NULL

\* What unlockAccount does, the login after it apart: on an existing user it
\* resets the three lockout fields, locked or not, and records
\* ACCOUNT_UNLOCKED with the admin who acted; on an unknown user it fails
\* with USER_NOT_FOUND and changes nothing.
UnlockResets ==
    Did("unlock")
        => LET u == last'.arg[1]
               adminId == last'.arg[2] IN
           IF u \in DOMAIN users
           THEN /\ last'.result = "OK"
                /\ CountersReset(users'[u])
                /\ last'.audit = {[action |-> "ACCOUNT_UNLOCKED", userId |-> u,
                                   unlockedBy |-> adminId]}
                /\ \A v \in Users \ {u} : users'[v] = users[v]
           ELSE /\ last'.result = "USER_NOT_FOUND"
                /\ last'.audit = {}
                /\ users' = users
                /\ sessions' = sessions

\* The login just handled is the request that follows a successful unlock of
\* u, and carries u's password.
LoginRightAfterUnlock(u) ==
    /\ last.op = "unlock"
    /\ last.result = "OK"
    /\ last.arg[1] = u
    /\ LoginOf(u)
    /\ CorrectPassword(u)

\* C20 as stated: unlockAccount on an existing user resets the three lockout
\* fields whether or not lockoutUntil has passed and emits ACCOUNT_UNLOCKED
\* naming the admin, and a correct-password login right after it succeeds; on
\* an unknown user it fails with USER_NOT_FOUND and changes nothing.
C20_UnlockThenLogin ==
    [][/\ UnlockResets
       /\ \A u \in Users :
             LoginRightAfterUnlock(u) => last'.result = "OK"]_vars

\* C20: as above, the login right after the unlock succeeding when the
\* account is active; on a deactivated account it fails with
\* ACCOUNT_INACTIVE, and it is never refused with ACCOUNT_LOCKED.
C20_UnlockThenLoginActive ==
    [][/\ UnlockResets
       /\ \A u \in Users :
             LoginRightAfterUnlock(u)
                => last'.result = (IF users[u].isActive
                                   THEN "OK" ELSE "ACCOUNT_INACTIVE")]_vars

\* C20 witness: an admin has unlocked an existing account less than 15
\* minutes after its last wrong password, before any lockout set by that
\* failure could have passed, and the audit record names that admin.
C20_Witness ==
    /\ last.op = "unlock"
    /\ last.result = "OK"
    /\ \E u \in Users : \E a \in Admins :
          /\ last.arg = <<u, a>>
          /\ last.audit = {[action |-> "ACCOUNT_UNLOCKED", userId |-> u,
                            unlockedBy |-> a]}
          /\ CountersReset(users[u])
          /\ streakAt[u] > 0
          /\ now < streakAt[u] + lockoutDurationMinutes * 60

\* The e-mail address of the login just handled belongs to no account.
NoAccount == \A u \in Users : last'.arg[1] # users[u].email

\* C21: login answers an e-mail address that has no account and a wrong
\* password on an existing account that is not locked with the same error:
\* status 401, code INVALID_CREDENTIALS, message "Invalid email or
\* password.", and nothing else in the response.
C21_SameError ==
    [][(Did("login")
          /\ \/ NoAccount
             \/ \E u \in Users : LoginOf(u) /\ ~Locked(u) /\ ~CorrectPassword(u))
        => /\ last'.error = {[statusCode |-> 401,
                              message |-> "Invalid email or password.",
                              code |-> "INVALID_CREDENTIALS"]}
           /\ last'.result = "INVALID_CREDENTIALS"
           /\ last'.out = {}]_vars

\* C21 witness: a login for an address without account has been answered
\* with the error a wrong password on an existing account got before it.
C21_Witness ==
    /\ last.op = "login"
    /\ \A u \in Users : last.arg[1] # users[u].email
    /\ \E e \in last.error :
          /\ e.code = "INVALID_CREDENTIALS"
          /\ e.message = "Invalid email or password."
    /\ \E u \in Users : users[u].failedLoginAttempts > 0 /\ streakAt[u] = now

-----------------------------------------------------------------------------
(* Properties of the authenticate middleware, under SpecAuth *)

\* The session rows the step just taken has revoked.
JustRevoked == {r \in sessions' : r.isRevoked /\ r \notin sessions}

\* C4: once logout, revokeSession or revokeAllUserTokens has ended the session
\* a pair was issued with, authenticate rejects the pair's access token: it
\* does not stay usable until its own expiry.
C4_AccessTokenDiesWithSession ==
    [][((Did("logout") \/ Did("revokeSession") \/ Did("revokeAll"))
          /\ last'.result = "OK")
        => \A p \in issued :
              (\E r \in JustRevoked : r.token = p.refresh)
                 => authenticate({p.access}, redis', redisUp', users', now') # "OK"]_vars

\* C4 witness: authenticate has accepted an unexpired access token whose
\* session row is revoked.
C4_Witness ==
    /\ last.op = "authenticate"
    /\ last.result = "OK"
    /\ \E p \in issued :
          /\ last.arg = <<{p.access}>>
          /\ now < p.access.exp
          /\ \E r \in sessions : r.token = p.refresh /\ r.isRevoked

-----------------------------------------------------------------------------
(* Properties of concurrent refresh requests, under SpecConc *)

\* The finished calls that presented tok and returned a pair.
Winners(tok) ==
    {p \in Procs : procs[p].pc = "done" /\ procs[p].tok = {tok}
                      /\ procs[p].result = "OK"}

\* The session rows created by rotating tok.
RowsFrom(tok) ==
    {r \in sessions : \E p \in Procs :
        procs[p].tok = {tok} /\ (\E pair \in procs[p].pair : r.token = pair.refresh)}

\* C2: of the concurrent refreshTokens calls presenting one valid, non-revoked
\* refresh token, at most one returns a pair and at most one session row is
\* created from the token; a finished call that did not win was handled as a
\* reuse (TOKEN_REUSE_DETECTED).
C2_AtMostOneWinner ==
    \A tok \in RefreshTokensIssued :
        /\ Cardinality(Winners(tok)) <= 1
        /\ Cardinality(RowsFrom(tok)) <= 1

\* C2 witness: two calls presented the same token and both have finished, one
\* of them with a pair.
C2_Witness ==
    \E tok \in RefreshTokensIssued :
        /\ \A p \in Procs : procs[p].pc = "done" /\ procs[p].tok = {tok}
        /\ Winners(tok) # {}

-----------------------------------------------------------------------------
(* Properties under faults of the cache and of the audit table, SpecFault *)

ReuseRecord(u) == [action |-> "TOKEN_REUSE_DETECTED", userId |-> u]

\* C12 as stated: every refresh that ends with TOKEN_REUSE_DETECTED has left
\* all sessions of the user revoked and has produced a TOKEN_REUSE_DETECTED
\* audit record.
C12_ReuseAlwaysAudited ==
    [][(Did("refresh") /\ last'.result = "TOKEN_REUSE_DETECTED")
         => /\ AllRevokedOf(sessions', Presented.userId)
            /\ ReuseRecord(Presented.userId) \in last'.audit]_vars

\* C12: every refresh that ends with TOKEN_REUSE_DETECTED has left all sessions
\* of the user revoked and has handed a TOKEN_REUSE_DETECTED event to the audit
\* service; the record exists unless the insert failed, in which case the
\* error is returned all the same.
C12_ReuseRevokesAndLogs ==
    [][(Did("refresh") /\ last'.result = "TOKEN_REUSE_DETECTED")
         => /\ AllRevokedOf(sessions', Presented.userId)
            /\ last'.audit = IF auditUp THEN {ReuseRecord(Presented.userId)} ELSE {}]_vars

\* C12 witness: a reuse has been refused, an active session of the user was
\* revoked by it and the audit record was written.
C12_Witness ==
    /\ last.op = "refresh"
    /\ last.result = "TOKEN_REUSE_DETECTED"
    /\ ReuseRecord(last.arg[1].userId) \in last.audit
    /\ \E r \in sessions : r.userId = last.arg[1].userId /\ r.token # last.arg[1]
    /\ AllRevokedOf(sessions, last.arg[1].userId)

-----------------------------------------------------------------------------
(* Properties of revokeAllUserTokens under concurrency, SpecConc *)

\* Process p's revokeAllUserTokens call returns in the step just taken.
RevokeAllReturns(p) ==
    /\ procs[p].call = "revokeAll"
    /\ procs[p].pc # "done"
    /\ procs'[p].pc = "done"

\* C13: when revokeAllUserTokens returns with the cache reachable, every row
\* it moved from non-revoked to revoked has its token in the durable blacklist
\* and no grace marker, also with a login or refresh running beside it.
C13_RevokedRowsBlacklisted ==
    [][\A p \in Procs :
         (RevokeAllReturns(p) /\ redisUp')
            => \A tok \in procs'[p].moved :
                  /\ RedisExists(redis', refreshKey(tok), now')
                  /\ ~RedisExists(redis', graceKey(tok), now')]_vars

\* C13 witness: a revokeAllUserTokens call has returned after revoking a row
\* that a login created between its findMany and its updateMany.
C13_Witness ==
    \E p \in Procs :
        /\ procs[p].call = "revokeAll"
        /\ procs[p].pc = "done"
        /\ \E tok \in procs[p].moved : ~RedisExists(redis, refreshKey(tok), now)

\* Redis holds the key and its TTL has not run out.
Live(key) == key \in DOMAIN redis /\ redis[key] > now

\* C15: with the cache reachable, isBlacklisted(token) is false whenever the
\* token's grace marker exists, with or without the durable marker, and
\* otherwise is true exactly when the durable marker exists.
C15_IsBlacklisted ==
    \A tok \in RefreshTokensIssued :
        redisUp =>
            isRefreshTokenBlacklisted(redis, redisUp, tok, now)
                = IF Live(graceKey(tok)) THEN FALSE ELSE Live(refreshKey(tok))

\* C15 witness: the cache is reachable, one token carries both markers and
\* another only the durable one.
C15_Witness ==
    /\ redisUp
    /\ \E a \in RefreshTokensIssued : \E b \in RefreshTokensIssued :
          /\ Live(graceKey(a)) /\ Live(refreshKey(a))
          /\ ~isRefreshTokenBlacklisted(redis, redisUp, a, now)
          /\ ~Live(graceKey(b)) /\ Live(refreshKey(b))
          /\ isRefreshTokenBlacklisted(redis, redisUp, b, now)

\* C16: while the cache is unreachable isBlacklisted answers false and the
\* blacklist writes of logout and of a rotation change nothing and do not fail
\* the call; a refresh with a validly signed, unexpired token whose row is
\* revoked (rotated or logged out) is still rejected as reuse and leaves all
\* the user's sessions revoked, whatever the cache's state.
C16_CacheFailsOpen ==
    [][/\ ~redisUp
          => /\ \A tok \in RefreshTokensIssued :
                   ~isRefreshTokenBlacklisted(redis, redisUp, tok, now)
             /\ (Did("logout") \/ Did("refresh"))
                   => /\ redis' = redis
                      /\ (\E r \in sessions : r.token = Presented /\ ~r.isRevoked)
                            => last'.result = "OK"
       /\ (/\ Did("refresh")
           /\ ValidRefreshToken(Presented, now)
           /\ \E r \in sessions : r.token = Presented /\ r.isRevoked)
          => /\ last'.result = "TOKEN_REUSE_DETECTED"
             /\ AllRevokedOf(sessions', Presented.userId)
             /\ IssuedNothing]_vars

\* C16 witness: with the cache unreachable and holding no entry at all, a
\* rotated token has been refused as reuse and its successor's row is revoked.
C16_Witness ==
    /\ ~redisUp
    /\ DOMAIN redis = {}
    /\ last.op = "refresh"
    /\ last.result = "TOKEN_REUSE_DETECTED"
    /\ \E p \in issued :
          /\ p.parent = {last.arg[1]}
          /\ \E r \in sessions : r.token = p.refresh /\ r.isRevoked

-----------------------------------------------------------------------------
(* Properties of the token values and of the session rows, under Spec *)

\* The pairs the step just taken has handed out.
NewPairs == issued' \ issued

\* C22: each refresh-token value backs at most one session row, and every
\* token value a login or a refresh produces differs from every value issued
\* before it, the one it was exchanged for included.
C22_TokenValuesUnique ==
    [][/\ \A r1, r2 \in sessions' : r1.token = r2.token => r1 = r2
       /\ \A p \in NewPairs :
             /\ \A q \in issued :
                   /\ p.refresh # q.refresh
                   /\ p.access # q.access
             /\ p.refresh \notin p.parent
             /\ \A r \in sessions : r.token # p.refresh]_vars

\* C22 witness: two logins of one user within the same second, and a
\* rotation, have left three rows with three token values.
C22_Witness ==
    /\ \E r1, r2 \in sessions :
          /\ r1.userId = r2.userId
          /\ r1.expiresAt = r2.expiresAt
          /\ r1.token.exp = r2.token.exp
          /\ r1.token # r2.token
    /\ \E p \in issued : p.parent # {}
    /\ Cardinality({r.token : r \in sessions}) = MaxTokens

-----------------------------------------------------------------------------
(* Properties of the isRevoked flag under concurrency, SpecConc *)

\* No step deletes a revoked row or turns its flag back to false.
RevokedStaysRevoked ==
    \A r \in sessions :
        r.isRevoked => \E r2 \in sessions' : r2.token = r.token /\ r2.isRevoked

\* The refreshTokens call of process p returns a pair in the step just taken.
Yields(p) ==
    /\ procs[p].call = "refresh"
    /\ procs[p].pc = "return"
    /\ procs'[p].pc = "done"

\* A revokeAllUserTokens call has returned after turning tok's row to revoked.
RevokedByRevokeAll(tok) ==
    \E q \in Procs :
        /\ procs[q].call = "revokeAll"
        /\ procs[q].pc = "done"
        /\ tok \in procs[q].moved

\* C23: isRevoked never goes from true to false, and a refresh token whose
\* row has been revoked, by a finished rotation of it or by a finished
\* revokeAllUserTokens, does not yield a token pair afterwards.
C23_RevokedIsFinal ==
    [][/\ RevokedStaysRevoked
       /\ \A p \in Procs :
             Yields(p) => /\ ~Rotated(TokenOf(p))
                          /\ ~RevokedByRevokeAll(TokenOf(p))]_vars

\* C23 witness: a refresh token has yielded a pair although a
\* revokeAllUserTokens call that revoked its row had returned before; the
\* row of the new refresh token is not revoked.
C23_Witness ==
    /\ last.op = "refresh"
    /\ last.result = "OK"
    /\ RevokedByRevokeAll(last.arg[1])
    /\ \E pair \in last.out :
          \E r \in sessions : r.token = pair.refresh /\ ~r.isRevoked

-----------------------------------------------------------------------------
(* Properties of the metadata of session rows, under SpecMeta *)

SameDevice(r1, r2) ==
    /\ r1.ipAddress = r2.ipAddress
    /\ r1.userAgent = r2.userAgent
    /\ r1.fingerprint = r2.fingerprint

\* C24: the session row a successful refresh creates carries the ipAddress,
\* userAgent and fingerprint of the row it replaces; hence every row of a
\* chain of rotations carries those of the row the login created.
C24_MetadataInherited ==
    \A p \in issued : \A a \in p.parent :
        \A new, old \in sessions :
            (new.token = p.refresh /\ old.token = a) => SameDevice(new, old)

\* C24 witness: a token obtained by rotating a rotated token backs a row
\* with the metadata of the login that started the chain.
C24_Witness ==
    \E p, q \in issued :
        /\ p.parent # {}
        /\ q.parent = {p.refresh}
        /\ \E r \in sessions :
              /\ r.token = q.refresh
              /\ r.ipAddress = Meta2.ipAddress
              /\ r.userAgent = Meta2.userAgent
              /\ r.fingerprint = generateFingerprint(Meta2)

-----------------------------------------------------------------------------
(* Properties of the operations when audit inserts fail, under SpecAudit *)

\* The step just taken left the session rows, the cache and the user rows as
\* they were.
SameStores == sessions' = sessions /\ redis' = redis /\ users' = users

\* What each operation returns and leaves in the session rows, the cache and
\* the user rows, as a function of its input and of those three before it:
\* whether audit inserts succeed does not occur in it.
LoginOutcome ==
    Did("login") =>
        LET email == last'.arg[1]
            found == {u \in Users : users[u].email = email}
        IN  IF found = {}
            THEN last'.result = "INVALID_CREDENTIALS" /\ SameStores
            ELSE LET u == CHOOSE x \in found : TRUE IN
                 IF Locked(u)
                 THEN last'.result = "ACCOUNT_LOCKED" /\ SameStores
                 ELSE IF ~CorrectPassword(u)
                 THEN /\ last'.result = "INVALID_CREDENTIALS"
                      /\ users' = [users EXCEPT ![u] = handleFailedLogin(@, now)]
                      /\ sessions' = sessions
                      /\ redis' = redis
                 ELSE IF ~users[u].isActive
                 THEN last'.result = "ACCOUNT_INACTIVE" /\ SameStores
                 ELSE /\ last'.result = "OK"
                      /\ users' = [users EXCEPT ![u] = resetFailedLogin(@)]
                      /\ redis' = redis
                      /\ \E pair \in last'.out : \E r \in sessions' :
                            /\ last'.out = {pair}
                            /\ pair.refresh.userId = u
                            /\ r \notin sessions
                            /\ sessions' = sessions \cup {r}
                            /\ r.token = pair.refresh
                            /\ r.userId = u
                            /\ ~r.isRevoked

RefreshOutcome ==
    Did("refresh") =>
        LET tok == Presented
            u == tok.userId
            verdict == verifyRefreshToken(tok, now)
            found == findByToken(sessions, tok)
            listed == isRefreshTokenBlacklisted(redis, redisUp, tok, now)
        IN  /\ users' = users
            /\ IF verdict # "ok"
               THEN /\ last'.result = verdict
                    /\ sessions' = sessions
                    /\ redis' = redis
               ELSE IF listed \/ isReuse(found)
               THEN /\ last'.result = "TOKEN_REUSE_DETECTED"
                    /\ last'.out = {}
                    /\ sessions' = markAllRevoked(sessions, u)
                    /\ redis' = addRefreshTokens(
                                   IF listed THEN redis
                                   ELSE addRefreshToken(redis, redisUp, tok, now),
                                   redisUp, activeTokensOf(sessions, u), now)
               ELSE /\ last'.result = "OK"
                    /\ redis' = addRefreshTokenWithGrace(redis, redisUp, tok, now)
                    /\ \E pair \in last'.out : \E r \in sessions' :
                          /\ last'.out = {pair}
                          /\ r \notin sessions
                          /\ sessions' = markRevoked(sessions, tok) \cup {r}
                          /\ r.token = pair.refresh
                          /\ r.userId = u
                          /\ ~r.isRevoked

LogoutOutcome ==
    Did("logout") =>
        /\ users' = users
        /\ IF findByToken(sessions, Presented) = {}
           THEN /\ last'.result = "TOKEN_NOT_FOUND"
                /\ sessions' = sessions
                /\ redis' = redis
           ELSE /\ last'.result = "OK"
                /\ sessions' = markRevoked(sessions, Presented)
                /\ redis' = addRefreshToken(redis, redisUp, Presented, now)

RevokeSessionOutcome ==
    Did("revokeSession") =>
        LET u == last'.arg[1]
            id == last'.arg[2]
            found == {r \in sessions : r.id = id /\ r.userId = u}
        IN  /\ users' = users
            /\ IF found = {}
               THEN /\ last'.result = "SESSION_NOT_FOUND"
                    /\ sessions' = sessions
                    /\ redis' = redis
               ELSE /\ last'.result = "OK"
                    /\ sessions' = markRevokedById(sessions, id)
                    /\ \E r \in found :
                          redis' = addRefreshToken(redis, redisUp, r.token, now)

RevokeAllOutcome ==
    Did("revokeAll") =>
        LET u == last'.arg[1] IN
        /\ last'.result = "OK"
        /\ users' = users
        /\ sessions' = markAllRevoked(sessions, u)
        /\ redis' = addRefreshTokens(redis, redisUp, activeTokensOf(sessions, u), now)

UnlockOutcome ==
    Did("unlock") =>
        LET u == last'.arg[1] IN
        /\ sessions' = sessions
        /\ redis' = redis
        /\ IF u \in DOMAIN users
           THEN /\ last'.result = "OK"
                /\ CountersReset(users'[u])
                /\ users' = [users EXCEPT ![u] = users'[u]]
                /\ users'[u].password = users[u].password
                /\ users'[u].isActive = users[u].isActive
           ELSE last'.result = "USER_NOT_FOUND" /\ users' = users

\* C25: login, refreshTokens, logout, revokeSession, revokeAllUserTokens and
\* unlockAccount return the same result and leave the same session rows,
\* blacklist and lockout fields whether the audit insert fails or succeeds;
\* a failed insert only leaves the audit record out.
C25_AuditFailureChangesNothing ==
    [][/\ LoginOutcome
       /\ RefreshOutcome
       /\ LogoutOutcome
       /\ RevokeSessionOutcome
       /\ RevokeAllOutcome
       /\ UnlockOutcome
       /\ (~auditUp /\ auditUp' = auditUp) => last'.audit = {}]_vars

\* C25 witness: with audit inserts failing, a refresh has rotated its token
\* and returned the new pair, and no audit record was written.
C25_Witness ==
    /\ ~auditUp
    /\ last.op = "refresh"
    /\ last.result = "OK"
    /\ last.audit = {}
    /\ sessions # {}
    /\ \A r \in sessions : r.createdAt = now
    /\ \E pair \in last.out : \E r \in sessions : r.token = pair.refresh /\ ~r.isRevoked

-----------------------------------------------------------------------------
(* Properties of the errors of authenticate, under SpecAuth *)

\* The access token of the authenticate request just handled, as a set.
Bearer == last'.arg[1]

\* C26: authenticate reports an expired access token and one with an invalid
\* signature under distinct error codes: TOKEN_EXPIRED for a validly signed
\* token past its exp, TOKEN_INVALID for a signature that does not verify.
C26_ExpiredDistinctFromInvalid ==
    [][Did("authenticate")
        => \A tok \in Bearer :
              ~isAccessTokenBlacklisted(redis, redisUp, tok, now)
                 => /\ jwtVerify(tok, "ACCESS_TOKEN_SECRET", now) = "TokenExpiredError"
                       => /\ last'.result = "TOKEN_EXPIRED"
                          /\ last'.result #
                                authenticate({Forge(tok)}, redis, redisUp, users, now)
                    /\ jwtVerify(tok, "ACCESS_TOKEN_SECRET", now) = "JsonWebTokenError"
                       => last'.result = "TOKEN_INVALID"]_vars

\* C26 witness: authenticate has answered TOKEN_INVALID for an access token
\* that login issued and that has merely expired.
C26_Witness ==
    /\ last.op = "authenticate"
    /\ last.result = "TOKEN_INVALID"
    /\ \E tok \in last.arg[1] :
          /\ tok \in AccessTokensIssued
          /\ now >= tok.exp
          /\ verifyAccessToken(tok, now) = "TOKEN_EXPIRED"

-----------------------------------------------------------------------------
(* Properties of hasSignificantChange, under SpecFingerprint *)

\* The comparison just made, its two arguments and its answer.
Original == last'.arg[1]
Current == last'.arg[2]
Answer == last'.out = {TRUE}

PrefixDiffers(a, b) == getIPPrefix(a.ipAddress) # getIPPrefix(b.ipAddress)

FamilyDiffers(a, b) ==
    extractBrowserInfo(a.userAgent) # extractBrowserInfo(b.userAgent)

\* C27 as stated: hasSignificantChange is true exactly when the network
\* prefix of the IP differs and the browser/OS family of the user agent
\* differs; a change of only one of the two yields false.
C27_BothMustDiffer ==
    [][Did("hasSignificantChange")
        => (Answer <=> (PrefixDiffers(Original, Current)
                           /\ FamilyDiffers(Original, Current)))]_vars

\* C27: hasSignificantChange is true exactly when both addresses are given
\* and their network prefixes differ, or both user agents are given and their
\* browser/OS families differ: a change of one of the two is enough.
C27_EitherDiffers ==
    [][Did("hasSignificantChange")
        => (Answer <=>
              \/ /\ Original.ipAddress # <<>>
                 /\ Current.ipAddress # <<>>
                 /\ PrefixDiffers(Original, Current)
              \/ /\ Original.userAgent # {}
                 /\ Current.userAgent # {}
                 /\ FamilyDiffers(Original, Current))]_vars

\* C27 witness: the same browser seen from another network has been answered
\* with true.
C27_Witness ==
    /\ last.op = "hasSignificantChange"
    /\ last.out = {TRUE}
    /\ last.arg[1].userAgent = last.arg[2].userAgent
    /\ last.arg[1].userAgent # {}
    /\ getIPPrefix(last.arg[1].ipAddress) = <<"10", ".", "0", ".", "0">>
    /\ getIPPrefix(last.arg[2].ipAddress) = <<"10", ".", "0", ".", "1">>

-----------------------------------------------------------------------------
(* Properties of what is persisted of a token, under Spec *)

\* The token strings handed to clients so far.
RawTokens == {p.refresh : p \in issued} \cup {p.access : p \in issued}

\* C28: no session row and no cache key holds a raw token value: the token
\* column of every row, and every blacklist or grace key, holds the one-way
\* hash of the token it stands for.
C28_OnlyHashesPersisted ==
    /\ \A r \in sessions :
          /\ r.token \notin RawTokens
          /\ \E tok \in RawTokens : r.token = hashToken(tok)
    /\ \A key \in DOMAIN redis :
          \E tok \in RawTokens : key[2] = hashToken(tok)

\* C28 witness: a session row holds the very token string the client was
\* given, while the blacklist key written for the same token holds its hash.
C28_Witness ==
    \E p \in issued : \E r \in sessions :
        /\ r.token = p.refresh
        /\ refreshKey(p.refresh) \in DOMAIN redis
        /\ \A key \in DOMAIN redis : key[2] # p.refresh

-----------------------------------------------------------------------------
(* Properties of the session listing and of the cleanup job, SpecSessions *)

\* The list getUserSessions has just returned, and the user it was asked for.
Listed == CHOOSE list \in last'.out : TRUE
ListedFor == last'.arg[1]

\* The rows of u that are not revoked and whose expiresAt is not before t.
ActiveRowsOf(u, t) ==
    {r \in sessions : r.userId = u /\ ~r.isRevoked /\ ~(r.expiresAt < t)}

\* C29: getUserSessions(u) returns exactly the rows of u that are not revoked
\* and not expired (expiresAt not before the current time), each once, the
\* most recently created first, and never a row of another user.
C29_ListsActiveSessions ==
    [][Did("getUserSessions")
        => /\ Cardinality(last'.out) = 1
           /\ {Listed[i].id : i \in DOMAIN Listed}
                 = {r.id : r \in ActiveRowsOf(ListedFor, now)}
           /\ Len(Listed) = Cardinality(ActiveRowsOf(ListedFor, now))
           /\ \A i \in DOMAIN Listed : \E r \in sessions :
                 /\ r.id = Listed[i].id
                 /\ r.userId = ListedFor
                 /\ Listed[i] = SessionResponse(r)
           /\ \A i, j \in DOMAIN Listed :
                 i < j => Listed[i].createdAt >= Listed[j].createdAt]_vars

\* C29 witness: a listing of two sessions created at different times, the
\* newer first, while a row that is revoked or belongs to the other user
\* exists and is not listed.
C29_Witness ==
    /\ last.op = "getUserSessions"
    /\ \E list \in last.out :
          /\ Len(list) = 2
          /\ list[1].createdAt > list[2].createdAt
          /\ \E r \in sessions :
                /\ r.userId # last.arg[1] \/ r.isRevoked
                /\ \A i \in DOMAIN list : list[i].id # r.id


\* The rows the step just taken has deleted.
Deleted == {r \in sessions : \A r2 \in sessions' : r2.id # r.id}

-----------------------------------------------------------------------------
(* SpecLoginConc: wrong-password logins of one user running concurrently *)

WrongPassword == "pw2"

\* The clock moves from 0 to an instant inside the reset window.
LoginConcInstants == {60}

NextLoginConc ==
    \/ \E p \in Logins :
          \/ LoginFindUnique(p, "u1", WrongPassword)
          \/ LoginUpdate(p)
    \/ \E t \in LoginConcInstants : Tick(t)

SpecLoginConc == Init /\ [][NextLoginConc]_vars

\* The wrong-password logins that have returned.
Completed == {p \in Logins : procs[p].pc = "done"}

\* C31: once five wrong-password logins against an unlocked account, all
\* within the reset window, have completed, in whatever interleaving, the
\* account is locked and failedLoginAttempts is 5.
C31_NoFailureLost ==
    Completed = Logins
        => /\ users["u1"].failedLoginAttempts = maxAttempts
           /\ isLocked(users["u1"], now)

\* Reached: all five requests read the row before any of them wrote it, each
\* wrote a count of 1, and the account is not locked.
C31_Witness ==
    /\ Completed = Logins
    /\ \A p \in Logins : procs[p].result = "INVALID_CREDENTIALS"
    /\ users["u1"].failedLoginAttempts = 1
    /\ ~isLocked(users["u1"], now)


-----------------------------------------------------------------------------
(* SpecLogoutConc: the requests of SpecConc, and logout *)

NextLogoutConc ==
    \/ NextConc
    \/ \E tok \in RefreshTokensIssued : Logout(tok, Meta1)

SpecLogoutConc == Init /\ [][NextLogoutConc]_vars

\* logout(tok) is the request that returned last, and it succeeded.
LoggedOut(tok) ==
    /\ last.op = "logout"
    /\ last.result = "OK"
    /\ last.arg = <<tok>>

\* The refreshTokens call of process p creates the row of its new token in
\* the step just taken.
Creates(p) ==
    /\ procs[p].call = "refresh"
    /\ procs[p].pc = "create"
    /\ procs'[p].pc = "return"

\* C32: once logout(T) has returned, no refreshTokens(T) call, one that
\* started before the logout included, creates a session row from T or
\* returns a token pair.
C32_LogoutStopsRefresh ==
    [][\A p \in Procs :
          (Creates(p) \/ Yields(p)) => ~LoggedOut(TokenOf(p))]_vars

\* Reached: logout(T) has returned, a refreshTokens(T) call that had read T's
\* row before is about to return its pair, and the row of the new refresh
\* token is in the table, not revoked.
C32_Witness ==
    \E p \in Procs :
        /\ procs[p].call = "refresh"
        /\ procs[p].pc = "return"
        /\ LoggedOut(TokenOf(p))
        /\ \E pair \in procs[p].pair :
              \E r \in sessions : r.token = pair.refresh /\ ~r.isRevoked


-----------------------------------------------------------------------------
(* SpecAccount: logins and refreshes of one user around a change of         *)
(* password and the deletion of the account                                 *)

\* The clock moves from 0 to the end of a lockout that started at 0.
AccountInstants == {lockoutDurationMinutes * 60}

NextAccount ==
    \/ \E pw \in Passwords : Login(EmailOf("u1"), pw, Meta1)
    \/ \E tok \in RefreshTokensIssued : RefreshTokens(tok)
    \/ \E cur \in Passwords : \E new \in Passwords : ChangePassword("u1", cur, new)
    \/ DeleteAccount("u1")
    \/ \E t \in AccountInstants : Tick(t)

SpecAccount == Init /\ [][NextAccount]_vars

\* changePassword or deleteAccount has just returned for user u.
CredentialsWithdrawn(u) ==
    /\ Did("changePassword") \/ Did("deleteAccount")
    /\ last'.result = "OK"
    /\ last'.arg[1] = u

\* On the return of changePassword or deleteAccount every session row of the
\* user is revoked, and a later refresh with a token the user had obtained
\* before is rejected and issues nothing.
WithdrawalRevokes ==
    /\ \A u \in Users :
          CredentialsWithdrawn(u)
              => /\ AllRevokedOf(sessions', u)
                 /\ IssuedTo(u) \subseteq burned'
    /\ (Did("refresh") /\ Presented \in burned)
          => /\ last'.result # "OK"
             /\ IssuedNothing

\* A login with the stored password to a deleted account.
LoginToDeleted(u) == LoginOf(u) /\ CorrectPassword(u) /\ ~users[u].isActive

\* C33 as stated: changePassword and deleteAccount revoke every session of
\* the user and a token obtained before them is refused afterwards; a login
\* with the correct password after deleteAccount gives ACCOUNT_INACTIVE.
C33_AfterWithdrawal ==
    [][/\ WithdrawalRevokes
       /\ \A u \in Users :
             LoginToDeleted(u) => last'.result = "ACCOUNT_INACTIVE"]_vars

\* C33: the same, the login to a deleted account being refused with
\* ACCOUNT_LOCKED while a lockout lasts and with ACCOUNT_INACTIVE otherwise;
\* it never issues a token.
C33_AfterWithdrawalUnlocked ==
    [][/\ WithdrawalRevokes
       /\ \A u \in Users :
             LoginToDeleted(u)
                 => /\ last'.result = IF Locked(u) THEN "ACCOUNT_LOCKED"
                                      ELSE "ACCOUNT_INACTIVE"
                    /\ IssuedNothing]_vars

\* Reached: the user holds two refresh tokens, all rows are revoked with the
\* password changed, and the newer token has been refused as reuse.
C33_Witness ==
    /\ last.op = "refresh"
    /\ last.result = "TOKEN_REUSE_DETECTED"
    /\ last.arg[1] \in burned
    /\ users["u1"].password # bcryptHash(InitialPassword)
    /\ Cardinality(IssuedTo("u1")) >= 2
    /\ ~Rotated(last.arg[1])
    /\ ~\E r \in sessions : r.token = last.arg[1] /\ ~r.isRevoked


-----------------------------------------------------------------------------
(* SpecOwner: two users, each with sessions of their own, revoking sessions *)

\* An id no session row has.
NoSession == 0

NextOwner ==
    \/ Login(EmailOf("u1"), InitialPassword, Meta1)
    \/ \E pw \in Passwords : Login(EmailOf("u2"), pw, Meta1)
    \/ \E tok \in RefreshTokensIssued : RefreshTokens(tok)
    \/ \E u \in Users : \E id \in SessionIds \cup {NoSession} :
          RevokeSession(u, id, Meta1)
    \/ \E u \in Users : RevokeAllUserTokens(u, Meta1)

SpecOwner == Init /\ [][NextOwner]_vars

\* The session rows of users other than u.
RowsOfOthers(S, u) == {r \in S : r.userId # u}

\* The token a blacklist key or grace marker was made from.
KeyToken(key) == key[2][2]

\* The entries of the cache made from tokens of users other than u.
KeysOfOthers(R, u) == {k \in DOMAIN R : KeyToken(k).userId # u}

\* C34: revokeSession(userId, sessionId) fails with SESSION_NOT_FOUND and
\* changes no session row and no blacklist entry when no row has that id and
\* that owner; otherwise it revokes that row, leaves every other row as it
\* is, and writes no blacklist entry but that of the row's token.
C34_RevokeSessionOwnerOnly ==
    [][Did("revokeSession") =>
         LET u == last'.arg[1]
             id == last'.arg[2]
             owned == {r \in sessions : r.id = id /\ r.userId = u}
         IN  IF owned = {}
             THEN /\ last'.result = "SESSION_NOT_FOUND"
                  /\ sessions' = sessions
                  /\ redis' = redis
             ELSE /\ last'.result = "OK"
                  /\ \A r \in owned :
                        /\ sessions' = (sessions \ {r})
                                           \cup {[r EXCEPT !.isRevoked = TRUE]}
                        /\ OnlyKeyWritten(refreshKey(r.token))
                        /\ ~r.isRevoked => Written(refreshKey(r.token))]_vars

\* Reached: a user asked to revoke a session of the other user, was answered
\* SESSION_NOT_FOUND, and that session is still active and not blacklisted.
C34_Witness ==
    /\ last.op = "revokeSession"
    /\ last.result = "SESSION_NOT_FOUND"
    /\ \E r \in sessions :
          /\ r.id = last.arg[2]
          /\ r.userId # last.arg[1]
          /\ ~r.isRevoked
          /\ refreshKey(r.token) \notin DOMAIN redis


\* revokeAllUserTokens has just run for user u: called on its own, or by a
\* refresh that detected the reuse of a token of u.
RevokedAllOf(u) ==
    \/ Did("revokeAll") /\ last'.arg[1] = u
    \/ /\ Did("refresh")
       /\ last'.result = "TOKEN_REUSE_DETECTED"
       /\ Presented.userId = u

\* C35: revokeAllUserTokens(u), and the detection of the reuse of a token of
\* u, leave the session rows, the blacklist entries and the lockout fields of
\* every other user as they were.
C35_OtherUsersUntouched ==
    [][\A u \in Users :
          RevokedAllOf(u)
              => /\ RowsOfOthers(sessions', u) = RowsOfOthers(sessions, u)
                 /\ KeysOfOthers(redis', u) = KeysOfOthers(redis, u)
                 /\ \A k \in KeysOfOthers(redis, u) : redis'[k] = redis[k]
                 /\ \A v \in Users \ {u} : users'[v] = users[v]]_vars

\* Reached: the reuse of a token of one user was detected and the user's
\* sessions, two or more, were revoked, while the other user, who has failed
\* logins on record, keeps an active session.
C35_Witness ==
    /\ last.op = "refresh"
    /\ last.result = "TOKEN_REUSE_DETECTED"
    /\ LET u == last.arg[1].userId IN
          /\ Cardinality({r \in sessions : r.userId = u}) >= 2
          /\ AllRevokedOf(sessions, u)
          /\ \E r \in sessions : r.userId # u /\ ~r.isRevoked
          /\ \E v \in Users \ {u} : users[v].failedLoginAttempts > 0


-----------------------------------------------------------------------------
(* SpecGate: authenticate, with access tokens blacklisted, the account      *)
(* deleted and Redis failing                                                *)

\* What a request may carry as access token: one login issued, the same with
\* a signature that does not verify, or one signed for a user without a row.
GateInputs ==
    AccessTokensIssued \cup {Forge(tok) : tok \in AccessTokensIssued}
        \cup {generateAccessToken(UnknownUser, 0, 0)}

\* Arrival times before and at the expiry of an access token issued at 0.
GateInstants == {60, ACCESS_TOKEN_EXPIRY}

NextGate ==
    \/ Login(EmailOf("u1"), InitialPassword, Meta1)
    \/ \E tok \in AccessTokensIssued : AddAccessToken(tok)
    \/ \E toks \in {{}} \cup {{tok} : tok \in GateInputs} : Authenticate(toks)
    \/ DeleteAccount("u1")
    \/ RedisFault
    \/ \E t \in GateInstants : Tick(t)

SpecGate == Init /\ [][NextGate]_vars

\* A lookup of the access blacklist reports tok: Redis answers and holds the
\* token's entry. When Redis does not answer the lookup reports nothing.
Reported(tok) == redisUp /\ Live(accessKey(tok))

\* tok passes signature and expiry verification as an access token.
Verifies(tok) == tok.sig = "ACCESS_TOKEN_SECRET" /\ now < tok.exp

\* tok names a user who has a row and is active.
OfActiveUser(tok) == tok.userId \in DOMAIN users /\ users[tok.userId].isActive

-----------------------------------------------------------------------------
(* SpecSweep: the cleanup job, in batches, among logins and refreshes       *)

\* The clock moves from 0 to the expiresAt of a row created at 0, and to the
\* second after it.
SweepInstants == {REFRESH_TOKEN_EXPIRY, REFRESH_TOKEN_EXPIRY + 1}

NextSweep ==
    \/ Login(EmailOf("u1"), InitialPassword, Meta1)
    \/ \E tok \in RefreshTokensIssued : RefreshTokens(tok)
    \/ \E r \in Runs :
          \/ deleteExpiredTokensCalled(r)
          \/ CleanupFindMany(r)
          \/ CleanupDeleteMany(r)
    \/ \E t \in SweepInstants : Tick(t)

SpecSweep == Init /\ [][NextSweep]_vars

\* The same, a store call that has been issued returning in the end.
SpecSweepFair ==
    SpecSweep /\ \A r \in Runs : WF_vars(CleanupFindMany(r) \/ CleanupDeleteMany(r))


\* C37: a session row never expires before its token does, and the row of
\* every refresh token handed out that still passes signature and expiry
\* verification is in the table: no sweep has deleted it, so a refresh with
\* it is not taken for the reuse of an unknown token.
C37_SweepSparesValidTokens ==
    /\ \A r \in sessions : r.expiresAt >= r.token.exp
    /\ \A tok \in RefreshTokensIssued :
          ValidRefreshToken(tok, now) => \E r \in sessions : r.token = tok

\* Reached: a sweep has ended after deleting the row of an expired token,
\* and the row of a token issued later, still valid, is kept.
C37_Witness ==
    /\ last.op = "sweep"
    /\ last.result = "done"
    /\ \E tok \in RefreshTokensIssued :
          /\ ~ValidRefreshToken(tok, now)
          /\ \A r \in sessions : r.token # tok
    /\ \E tok \in RefreshTokensIssued :
          /\ ValidRefreshToken(tok, now)
          /\ \E r \in sessions : r.token = tok


\* deleteExpiredTokens has just been called as run r (a call that returns at
\* once changes nothing but the record of the last request).
Called(r) ==
    /\ last' # last
    /\ last'.op = "sweep"
    /\ last'.arg = <<r>>
    /\ last'.result \in {"started", "skipped"}

\* C38: at most one run of deleteExpiredTokens is in progress, and isRunning
\* is true exactly while one is; a call made while a run is in progress
\* returns without touching the store or the job, a call made while none is
\* starts a run; and the end of a run, by completion or by a failed store
\* call, resets isRunning.
C38_OneSweepAtATime ==
    [][/\ Cardinality(InProgress') <= 1
       /\ cleanup'.isRunning <=> InProgress' # {}
       /\ \A r \in Runs :
             /\ Called(r)
                   => IF InProgress # {}
                      THEN /\ last'.result = "skipped"
                           /\ sessions' = sessions
                           /\ cleanup' = cleanup
                      ELSE /\ last'.result = "started"
                           /\ InProgress' = {r}
             /\ (r \in InProgress /\ r \notin InProgress')
                   => /\ ~cleanup'.isRunning
                      /\ last'.result \in {"done", "failed"}]_vars

\* Reached: a call of deleteExpiredTokens has returned at once while another
\* run, with a batch found and not yet deleted, is in progress.
C38_Witness ==
    /\ last.op = "sweep"
    /\ last.result = "skipped"
    /\ cleanup.isRunning
    /\ \E r \in Runs \ {last.arg[1]} :
          /\ cleanup.run[r].pc = "deleteMany"
          /\ cleanup.run[r].expired # {}


\* What a run in progress does in a step of its own: its cut-off stays the one taken at
\* its start; deleteMany removes the batch found; the loop goes round again
\* only after a full batch, and ends after an empty or a short one.
LoopStep(r) ==
    LET run == cleanup.run[r]
        matching == {x \in sessions : x.expiresAt < run.now}
        ended == r \notin InProgress'
    IN  /\ ~ended => cleanup'.run[r].now = run.now
        /\ (run.pc = "deleteMany" /\ (~ended \/ last'.result = "done"))
              => /\ sessions' = {x \in sessions : x.id \notin run.expired}
                 /\ run.expired \subseteq {x.id : x \in matching}
                 /\ ended <=> Cardinality(run.expired) < cleanupBatchSize
        /\ (run.pc = "findMany" /\ ended /\ last'.result = "done")
              => matching = {}
        /\ (run.pc = "findMany" /\ ~ended)
              => /\ cleanup'.run[r].expired # {}
                 /\ Cardinality(cleanup'.run[r].expired) <= cleanupBatchSize

\* A step of another request adds no row that the cut-off of run r matches.
NoNewMatch(r) ==
    {x.id : x \in {y \in sessions' : y.expiresAt < cleanup.run[r].now}}
        \subseteq {x.id : x \in {y \in sessions : y.expiresAt < cleanup.run[r].now}}

\* C40: every run of deleteExpiredTokens ends: its cut-off is fixed at its
\* start, each round of the loop deletes the batch it found, no other request
\* adds to the rows the cut-off matches, and the loop ends on an empty batch,
\* on a batch smaller than the batch size, or on a failed store call.
C40_SweepTerminates ==
    /\ [][\A r \in InProgress :
             /\ cleanup'.run[r] # cleanup.run[r] => LoopStep(r)
             /\ cleanup'.run[r] = cleanup.run[r] => NoNewMatch(r)]_vars
    /\ \A r \in Runs : (r \in InProgress) ~> (r \notin InProgress)

\* Reached: a run has ended after two rounds of the loop, having deleted a
\* full batch and then the rest.
C40_Witness ==
    /\ last.op = "sweep"
    /\ last.result = "done"
    /\ \E n \in last.out : n > cleanupBatchSize
    /\ InProgress = {}
    /\ ~cleanup.isRunning


-----------------------------------------------------------------------------
(* Properties of the lockout after it has expired, under SpecLock *)

\* The lockout of u has expired and nothing has reset the counters since: no
\* successful login, no unlock, no failure counted after the window.
ExpiredLockout(u) ==
    /\ LockoutPassed(u)
    /\ users[u].failedLoginAttempts >= maxAttempts

\* C39: after a lockout has expired, with no successful login and no unlock
\* since, a wrong password within 30 minutes of the last counted failure
\* locks the account again at once for 15 minutes, the counter going on from
\* where it stood; more than 30 minutes after that failure it sets
\* failedLoginAttempts to 1 and does not lock.
C39_RelockAfterExpiry ==
    [][\A u \in Users :
         (LoginOf(u) /\ ~CorrectPassword(u) /\ ExpiredLockout(u))
            => /\ last'.result = "INVALID_CREDENTIALS"
               /\ IF now - users[u].lastFailedLogin <= resetWindowMinutes * 60
                  THEN /\ users'[u].failedLoginAttempts =
                             users[u].failedLoginAttempts + 1
                       /\ users'[u].lockoutUntil = now + lockoutDurationMinutes * 60
                       /\ [action |-> "ACCOUNT_LOCKED", userId |-> u] \in last'.audit
                  ELSE /\ users'[u].failedLoginAttempts = 1
                       /\ users'[u].lockoutUntil = users[u].lockoutUntil
                       /\ [action |-> "ACCOUNT_LOCKED", userId |-> u]
                             \notin last'.audit]_vars

\* Reached: exactly 30 minutes after the fifth failure, the lockout long
\* expired, one wrong password has locked the account again with a count of 6.
C39_Witness ==
    /\ last.op = "login"
    /\ last.result = "INVALID_CREDENTIALS"
    /\ now = resetWindowMinutes * 60
    /\ \E u \in Users :
          /\ last.arg[1] = users[u].email
          /\ users[u].failedLoginAttempts = maxAttempts + 1
          /\ users[u].lastFailedLogin = now
          /\ users[u].lockoutUntil = now + lockoutDurationMinutes * 60
          /\ streak[u] = maxAttempts + 1

====
